---- MODULE Spec2Model ----
(***************************************************************************)
(* State-machine model of drivers/clk/qcom/gdsc-regulator.c: one GDSC      *)
(* power domain (struct gdsc), its register words, its root clock, its     *)
(* reset lines and its parent supply lock, driven through the regulator    *)
(* operations enable / disable / set_mode / get_mode / is_enabled.         *)
(*                                                                         *)
(* Every operation is one action that runs the whole handler.  A handler   *)
(* is written as a chain of steps over a "machine" record m:               *)
(*   m.sc      the runtime fields of struct gdsc                           *)
(*   m.regs    the register words behind each regmap                       *)
(*   m.clk     enable count this domain holds on its root clock            *)
(*   m.rst     reset lines, TRUE = asserted                                *)
(*   m.lock    nesting depth of the parent supply lock held by the caller  *)
(*   m.regval  the local variable regval of the handler                    *)
(*   m.n       number of status samples taken by poll_gdsc_status          *)
(*   m.ev      the ordered list of externally visible events of the call   *)
(*   m.ret     the local variable ret / the value returned                 *)
(*                                                                         *)
(* PWR_ON (bit 31) is a status bit owned by the hardware: the stored       *)
(* register words hold the software-written bits, and each sample of the   *)
(* polled register takes its PWR_ON bit from the status script st that the *)
(* environment supplies to the call (st[i] is the bit seen by sample i).   *)
(***************************************************************************)
EXTENDS Integers, Sequences, FiniteSets, TLC

(* ------------------------------ bounds ------------------------------- *)
MaxTimeout == 2
MaxResets == 2
MaxClk == 2

(* ----------------------- constants of the source --------------------- *)
\* A 32-bit word is the set of the indices of its 1 bits, so that &, | and ~
\* are exact on all 32 bits: BIT(b) is {b}, 0xF << 12 is {12, 13, 14, 15}.
BIT(b) == {b}
CLK_DIS_WAIT_SHIFT == 12
PWR_ON_MASK == BIT(31)
CLK_DIS_WAIT_MASK == {b + CLK_DIS_WAIT_SHIFT : b \in 0..3}
RETAIN_FF_ENABLE_MASK == BIT(11)
SW_OVERRIDE_MASK == BIT(2)
HW_CONTROL_MASK == BIT(1)
SW_COLLAPSE_MASK == BIT(0)
GMEM_CLAMP_IO_MASK == BIT(0)
GMEM_RESET_MASK == BIT(4)
BCR_BLK_ARES_BIT == BIT(0)
TIMEOUT_US == 100

\* enum gdscr_status (ENABLED is a reserved word of TLA+)
GDSCR_ENABLED == "ENABLED"
GDSCR_DISABLED == "DISABLED"

EBUSY == 16
ETIMEDOUT == 110
EIO == 5
EINVAL == 22

REGULATOR_MODE_FAST == 1
REGULATOR_MODE_NORMAL == 2
REGULATOR_MODE_IDLE == 4

(* --------------------------- 32-bit words ---------------------------- *)
Bits32 == 0..31
\* v & mask
And(v, mask) == v \cap mask
\* (v & mask) != 0
Test(v, mask) == And(v, mask) # {}
\* v | mask
Or(v, mask) == v \cup mask
\* ~v
Not32(v) == Bits32 \ v
\* v & ~mask
AndNot(v, mask) == And(v, Not32(mask))
\* v << n on 32 bits
Shl(v, n) == {b + n : b \in v} \cap Bits32

(* ------------------------------ events ------------------------------- *)
\* t: kind of event, r: register, v: the word read or written, k: a number
\* (microseconds, reset line, sampled PWR_ON bit, answer of the parent)
Ev(t, r, v, k) == [t |-> t, r |-> r, v |-> v, k |-> k]
Emit(m, t, r, v, k) == [m EXCEPT !.ev = Append(@, Ev(t, r, v, k))]

(* --------------------- external collaborators ------------------------ *)
\* regmap_read(map, REG_OFFSET, &regval)
regmap_read(m, r) == Emit([m EXCEPT !.regval = m.regs[r]], "read", r, m.regs[r], 0)
\* regmap_write(map, REG_OFFSET, val)
regmap_write(m, r, val) == Emit([m EXCEPT !.regs[r] = val], "write", r, val, 0)
\* regmap_update_bits(map, REG_OFFSET, mask, val): new = (old & ~mask) | (val & mask)
regmap_update_bits(m, r, mask, val) ==
  LET new == Or(AndNot(m.regs[r], mask), And(val, mask))
  IN  Emit([m EXCEPT !.regs[r] = new], "write", r, new, 0)
udelay(m, us) == Emit(m, "udelay", "-", {}, us)
clk_prepare_enable(m) == Emit([m EXCEPT !.clk = @ + 1], "clk_enable", "-", {}, 0)
clk_disable_unprepare(m) == Emit([m EXCEPT !.clk = @ - 1], "clk_disable", "-", {}, 0)
reset_control_deassert(m, i) == Emit([m EXCEPT !.rst[i] = FALSE], "deassert", "-", {}, i)
reset_control_assert(m, i) == Emit([m EXCEPT !.rst[i] = TRUE], "assert", "-", {}, i)
regulator_lock(m) == Emit([m EXCEPT !.lock = @ + 1], "lock", "-", {}, 0)
regulator_unlock(m) == Emit([m EXCEPT !.lock = @ - 1], "unlock", "-", {}, 0)

gdsc_mb(m) == Emit(m, "mb", "regmap", m.regs["regmap"], 0)

(* ----------------------------- Poll Engine --------------------------- *)
PolledReg(m) == IF m.sc.hw_ctrl THEN "hw_ctrl" ELSE "regmap"


\* mutant of poll_loop: the delay after a failed sample is missing
RECURSIVE poll_loop_nodelay(_, _, _, _)
poll_loop_nodelay(m, status, st, count) ==
  IF count > 0
  THEN LET val == st[m.n + 1]
           m1  == Emit([m EXCEPT !.n = @ + 1], "sample", PolledReg(m), {}, val)
       IN  IF (status = GDSCR_ENABLED /\ val = 1) \/ (status = GDSCR_DISABLED /\ val = 0)
           THEN [m1 EXCEPT !.ret = 0]
           ELSE poll_loop_nodelay(m1, status, st, count - 1)
  ELSE [m EXCEPT !.ret = -ETIMEDOUT]
\* for (; count > 0; count--) { sample; return 0 on a match; udelay(1) } return -ETIMEDOUT
RECURSIVE poll_loop(_, _, _, _)
poll_loop(m, status, st, count) ==
  IF count > 0
  THEN LET val == st[m.n + 1]
           m1  == Emit([m EXCEPT !.n = @ + 1], "sample", PolledReg(m), {}, val)
       IN  IF (status = GDSCR_ENABLED /\ val = 1) \/ (status = GDSCR_DISABLED /\ val = 0)
           THEN [m1 EXCEPT !.ret = 0]
           ELSE poll_loop(udelay(m1, 1), status, st, count - 1)
  ELSE [m EXCEPT !.ret = -ETIMEDOUT]


\* mutant of poll_gdsc_status: the loop stops one iteration early
poll_gdsc_status_short(m, status, st) == poll_loop(m, status, st, m.sc.gds_timeout - 1)
poll_gdsc_status(m, status, st) == poll_loop(m, status, st, m.sc.gds_timeout)

(* ------------------------------ helpers ------------------------------ *)
\* return from the handler with value r
Return(m, r) == [m EXCEPT !.ret = r, !.done = TRUE]
\* a read into a local other than regval (hw_ctrl_regval)
regmap_read_aux(m, r) == Emit(m, "read", r, m.regs[r], 0)

(* --------------------------- gdsc_is_enabled ------------------------- *)

\* mutant of gdsc_is_enabled: the skip_disable_before_enable test is missing
gdsc_is_enabled_noskip(s) ==
  IF ~s.toggle_logic THEN ~s.resets_asserted ELSE s.is_gdsc_enabled
gdsc_is_enabled(s) ==
  IF ~s.toggle_logic THEN ~s.resets_asserted
  ELSE IF s.skip_disable_before_enable THEN FALSE
  ELSE s.is_gdsc_enabled

(* ----------------------------- gdsc_enable --------------------------- *)
\* if (sc->root_en || sc->force_root_en) { clk_prepare_enable; voted = true }
gdsc_enable_root_clk(m) ==
  IF m.sc.root_en \/ m.sc.force_root_en
  THEN [clk_prepare_enable(m) EXCEPT !.sc.is_root_clk_voted = TRUE]
  ELSE m


\* mutant of gdsc_enable_busy_check: the HW_CONTROL test is missing
gdsc_enable_busy_check_nobusy(m) == regmap_read(m, "regmap")
\* regmap_read(sc->regmap); if (regval & HW_CONTROL_MASK) return -EBUSY
gdsc_enable_busy_check(m) ==
  LET m1 == regmap_read(m, "regmap")
  IN  IF Test(m1.regval, HW_CONTROL_MASK) THEN Return(m1, -EBUSY) ELSE m1

\* writes of regval to sw_reset and, when present, to acd_reset and acd_misc_reset
gdsc_write_resets(m) ==
  LET m1 == regmap_write(m, "sw_reset", m.regval)
      m2 == IF m1.sc.acd_reset THEN regmap_write(m1, "acd_reset", m1.regval) ELSE m1
  IN  IF m2.sc.acd_misc_reset THEN regmap_write(m2, "acd_misc_reset", m2.regval) ELSE m2

\* mutant of gdsc_enable_sw_reset: BLK_ARES is de-asserted without the 1us hold
gdsc_enable_sw_reset_nohold(m) ==
  IF m.sc.sw_reset
  THEN LET m1 == regmap_read(m, "sw_reset")
           m2 == gdsc_write_resets([m1 EXCEPT !.regval = Or(@, BCR_BLK_ARES_BIT)])
           m4 == gdsc_write_resets([m2 EXCEPT !.regval = AndNot(@, BCR_BLK_ARES_BIT)])
       IN  gdsc_mb(m4)
  ELSE m
\* if (sc->sw_reset) { assert BLK_ARES, mb, udelay(1), de-assert, mb }
gdsc_enable_sw_reset(m) ==
  IF m.sc.sw_reset
  THEN LET m1 == regmap_read(m, "sw_reset")
           m2 == gdsc_write_resets([m1 EXCEPT !.regval = Or(@, BCR_BLK_ARES_BIT)])
           m3 == udelay(gdsc_mb(m2), 1)
           m4 == gdsc_write_resets([m3 EXCEPT !.regval = AndNot(@, BCR_BLK_ARES_BIT)])
       IN  gdsc_mb(m4)
  ELSE m

\* if (sc->reset_aon) { pulse GMEM_RESET for 1us }
gdsc_enable_reset_aon(m) ==
  IF m.sc.reset_aon
  THEN LET m1 == regmap_read(m, "domain_addr")
           m2 == [m1 EXCEPT !.regval = Or(@, GMEM_RESET_MASK)]
           m3 == udelay(gdsc_mb(regmap_write(m2, "domain_addr", m2.regval)), 1)
           m4 == [m3 EXCEPT !.regval = AndNot(@, GMEM_RESET_MASK)]
       IN  gdsc_mb(regmap_write(m4, "domain_addr", m4.regval))
  ELSE m

\* if (sc->domain_addr) { optional GMEM_RESET pulse; clear GMEM_CLAMP_IO; mb }
gdsc_enable_domain_addr(m) ==
  IF m.sc.domain_addr
  THEN LET m1 == regmap_read(gdsc_enable_reset_aon(m), "domain_addr")
           m2 == [m1 EXCEPT !.regval = AndNot(@, GMEM_CLAMP_IO_MASK)]
       IN  gdsc_mb(regmap_write(m2, "domain_addr", m2.regval))
  ELSE m

\* Enable gdsc: clear the vote bit, or clear SW_COLLAPSE; then mb, udelay(1)
gdsc_enable_collapse(m) ==
  LET m1 == IF m.sc.collapse_vote.regmap
            THEN regmap_update_bits(m, "collapse_vote", BIT(m.sc.collapse_vote.vote_bit),
                                    Not32(BIT(m.sc.collapse_vote.vote_bit)))
            ELSE LET r == regmap_read(m, "regmap")
                     c == [r EXCEPT !.regval = AndNot(@, SW_COLLAPSE_MASK)]
                 IN  regmap_write(c, "regmap", c.regval)
  IN  udelay(gdsc_mb(m1), 1)

\* mutant of gdsc_enable_poll: the timeout is returned without the re-poll
gdsc_enable_poll_noretry(m, st) ==
  LET p1 == poll_gdsc_status(m, GDSCR_ENABLED, st)
  IN  IF p1.ret # 0
      THEN LET d1 == regmap_read(p1, "regmap")
           IN  Return(regmap_read(udelay(d1, d1.sc.gds_timeout), "regmap"), d1.ret)
      ELSE p1
\* ret = poll_gdsc_status(sc, ENABLED); the diagnostics and the re-poll on timeout
gdsc_enable_poll(m, st) ==
  LET p1 == poll_gdsc_status(m, GDSCR_ENABLED, st)
  IN  IF p1.ret # 0
      THEN LET d1 == regmap_read(p1, "regmap")
           IN  IF d1.sc.hw_ctrl
               THEN LET p2 == poll_gdsc_status(regmap_read_aux(d1, "hw_ctrl"), GDSCR_ENABLED, st)
                    IN  IF p2.ret # 0
                        THEN Return(regmap_read_aux(regmap_read(p2, "regmap"), "hw_ctrl"), p2.ret)
                        ELSE p2
               ELSE Return(regmap_read(udelay(d1, d1.sc.gds_timeout), "regmap"), d1.ret)
      ELSE p1

\* if (sc->retain_ff_enable && !(regval & RETAIN_FF_ENABLE_MASK)) write regval | RETAIN
gdsc_enable_retain(m) ==
  IF m.sc.retain_ff_enable /\ ~Test(m.regval, RETAIN_FF_ENABLE_MASK)
  THEN LET m1 == [m EXCEPT !.regval = Or(@, RETAIN_FF_ENABLE_MASK)]
       IN  regmap_write(m1, "regmap", m1.regval)
  ELSE m

\* mutant of gdsc_enable_toggle: the retention write is made after a timeout too
gdsc_enable_toggle_retain_always(m, st) ==
  LET m1 == gdsc_enable_collapse(gdsc_enable_domain_addr(gdsc_enable_sw_reset(m)))
  IN  gdsc_enable_retain(gdsc_enable_poll(m1, st))
\* mutant of gdsc_enable_toggle: the collapse request is dropped before the clamp
gdsc_enable_toggle_collapse_first(m, st) ==
  LET m1 == gdsc_enable_domain_addr(gdsc_enable_collapse(gdsc_enable_sw_reset(m)))
      m2 == gdsc_enable_poll(m1, st)
  IN  IF m2.done THEN m2 ELSE gdsc_enable_retain(m2)
\* the register-toggled branch of gdsc_enable
gdsc_enable_toggle(m, st) ==
  LET m1 == gdsc_enable_collapse(gdsc_enable_domain_addr(gdsc_enable_sw_reset(m)))
      m2 == gdsc_enable_poll(m1, st)
  IN  IF m2.done THEN m2 ELSE gdsc_enable_retain(m2)

\* for (i = 0; i < sc->reset_count; i++) reset_control_deassert(sc->reset_clocks[i])
RECURSIVE deassert_from(_, _)
deassert_from(m, i) ==
  IF i < m.sc.reset_count THEN deassert_from(reset_control_deassert(m, i), i + 1) ELSE m


\* mutant of gdsc_enable_resets: the lines are de-asserted from the last to the first
RECURSIVE deassert_down(_, _)
deassert_down(m, i) ==
  IF i >= 0 THEN deassert_down(reset_control_deassert(m, i), i - 1) ELSE m
gdsc_enable_resets_reversed(m) ==
  [deassert_down(m, m.sc.reset_count - 1) EXCEPT !.sc.resets_asserted = FALSE]
\* mutant of gdsc_enable_resets: resets_asserted is left as it was
gdsc_enable_resets_keep_flag(m) == deassert_from(m, 0)
\* the reset-controlled branch of gdsc_enable
gdsc_enable_resets(m) == [deassert_from(m, 0) EXCEPT !.sc.resets_asserted = FALSE]


\* mutant of gdsc_enable_tail: the final is_gdsc_enabled = true is missing
gdsc_enable_tail_noflag(m) ==
  LET m1 == udelay(udelay(m, 1), 1)
      m2 == IF m1.sc.force_root_en
            THEN [clk_disable_unprepare(m1) EXCEPT !.sc.is_root_clk_voted = FALSE]
            ELSE m1
  IN  Return(m2, m2.ret)
\* udelay(1); udelay(1); drop a forced root clock; is_gdsc_enabled = true; return ret
gdsc_enable_tail(m) ==
  LET m1 == udelay(udelay(m, 1), 1)
      m2 == IF m1.sc.force_root_en
            THEN [clk_disable_unprepare(m1) EXCEPT !.sc.is_root_clk_voted = FALSE]
            ELSE m1
  IN  Return([m2 EXCEPT !.sc.is_gdsc_enabled = TRUE], m2.ret)

\* mutant of gdsc_enable: the skip_disable_before_enable return is missing
gdsc_enable_noskip(m, st) ==
  LET m1 == gdsc_enable_busy_check(gdsc_enable_root_clk(m))
  IN  IF m1.done THEN m1
      ELSE LET m2 == IF m1.sc.toggle_logic THEN gdsc_enable_toggle(m1, st)
                     ELSE gdsc_enable_resets(m1)
           IN  IF m2.done THEN m2 ELSE gdsc_enable_tail(m2)
\* mutant of gdsc_enable: the HW_CONTROL test is made on register-toggled domains only
gdsc_enable_busy_toggle_only(m, st) ==
  IF m.sc.skip_disable_before_enable THEN Return(m, 0)
  ELSE LET m0 == gdsc_enable_root_clk(m)
           m1 == IF m0.sc.toggle_logic THEN gdsc_enable_busy_check(m0)
                 ELSE regmap_read(m0, "regmap")
       IN  IF m1.done THEN m1
           ELSE LET m2 == IF m1.sc.toggle_logic THEN gdsc_enable_toggle(m1, st)
                          ELSE gdsc_enable_resets(m1)
                IN  IF m2.done THEN m2 ELSE gdsc_enable_tail(m2)
gdsc_enable(m, st) ==
  IF m.sc.skip_disable_before_enable THEN Return(m, 0)
  ELSE LET m1 == gdsc_enable_busy_check(gdsc_enable_root_clk(m))
       IN  IF m1.done THEN m1
           ELSE LET m2 == IF m1.sc.toggle_logic THEN gdsc_enable_toggle(m1, st)
                          ELSE gdsc_enable_resets(m1)
                IN  IF m2.done THEN m2 ELSE gdsc_enable_tail(m2)

(* ----------------------------- gdsc_disable -------------------------- *)

\* mutant of gdsc_parent_check: a disabled parent is not refused
gdsc_parent_check_norefuse(m, parent) ==
  IF m.supply
  THEN LET m1 == Emit(regulator_lock(m), "is_enabled", "-", {}, parent)
       IN  IF parent < 0 THEN [m1 EXCEPT !.ret = parent, !.jump = TRUE] ELSE m1
  ELSE m
\* mutant of gdsc_parent_check: the parent lock is dropped right after the check
gdsc_parent_check_unlock_early(m, parent) ==
  IF m.supply
  THEN LET m1 == Emit(regulator_lock(m), "is_enabled", "-", {}, parent)
       IN  IF parent < 0 THEN [m1 EXCEPT !.ret = parent, !.jump = TRUE]
           ELSE IF parent = 0 THEN [m1 EXCEPT !.ret = -EIO, !.jump = TRUE]
           ELSE regulator_unlock(m1)
  ELSE m
\* if (rdev->supply) { regulator_lock; parent_enabled = regulator_is_enabled; ... }
\* parent is what regulator_is_enabled(rdev->supply) returns: 1, 0 or a negative errno
gdsc_parent_check(m, parent) ==
  IF m.supply
  THEN LET m1 == Emit(regulator_lock(m), "is_enabled", "-", {}, parent)
       IN  IF parent < 0 THEN [m1 EXCEPT !.ret = parent, !.jump = TRUE]
           ELSE IF parent = 0 THEN [m1 EXCEPT !.ret = -EIO, !.jump = TRUE]
           ELSE m1
  ELSE m


\* mutant of gdsc_done: the parent lock is released only on success
gdsc_done_leak(m) == Return(IF m.supply /\ m.ret = 0 THEN regulator_unlock(m) ELSE m, m.ret)
\* mutant of gdsc_done: every goto done returns at once, the lock still held
gdsc_done_return_early(m) == Return(IF m.supply /\ ~m.jump THEN regulator_unlock(m) ELSE m, m.ret)
\* done: if (rdev->supply) regulator_unlock(rdev->supply->rdev); return ret
gdsc_done(m) == Return(IF m.supply THEN regulator_unlock(m) ELSE m, m.ret)

\* if (sc->force_root_en) { clk_prepare_enable; voted = true }; udelay(1)
gdsc_disable_root_clk(m) ==
  udelay(IF m.sc.force_root_en
         THEN [clk_prepare_enable(m) EXCEPT !.sc.is_root_clk_voted = TRUE]
         ELSE m, 1)

\* mutant of gdsc_disable_acd_misc: the assert does not depend on sw_reset
gdsc_disable_acd_misc_alone(m) ==
  IF m.sc.acd_misc_reset
  THEN regmap_update_bits(m, "acd_misc_reset", BCR_BLK_ARES_BIT, BCR_BLK_ARES_BIT)
  ELSE m
\* if (sc->sw_reset) { if (sc->acd_misc_reset) regmap_update_bits(acd_misc_reset, ARES, ARES) }
gdsc_disable_acd_misc(m) ==
  IF m.sc.sw_reset /\ m.sc.acd_misc_reset
  THEN regmap_update_bits(m, "acd_misc_reset", BCR_BLK_ARES_BIT, BCR_BLK_ARES_BIT)
  ELSE m

\* Disable gdsc: set the vote bit, or set SW_COLLAPSE; then mb, udelay(1)
gdsc_disable_collapse(m) ==
  LET m1 == IF m.sc.collapse_vote.regmap
            THEN regmap_update_bits(m, "collapse_vote", BIT(m.sc.collapse_vote.vote_bit),
                                    BIT(m.sc.collapse_vote.vote_bit))
            ELSE LET r == regmap_read(m, "regmap")
                     c == [r EXCEPT !.regval = Or(@, SW_COLLAPSE_MASK)]
                 IN  regmap_write(c, "regmap", c.regval)
  IN  udelay(gdsc_mb(m1), 1)

\* mutant of gdsc_disable_poll: the status is polled on every domain
gdsc_disable_poll_always(m, st) ==
  LET p == poll_gdsc_status(m, GDSCR_DISABLED, st)
  IN  IF p.ret # 0 THEN regmap_read(p, "regmap") ELSE p
\* udelay(TIMEOUT_US) when the status check is suppressed, else poll for DISABLED
gdsc_disable_poll(m, st) ==
  IF m.sc.no_status_check_on_disable THEN udelay(m, TIMEOUT_US)
  ELSE LET p == poll_gdsc_status(m, GDSCR_DISABLED, st)
       IN  IF p.ret # 0 THEN regmap_read(p, "regmap") ELSE p

\* if (sc->domain_addr) set GMEM_CLAMP_IO
gdsc_disable_clamp(m) ==
  IF m.sc.domain_addr
  THEN LET m1 == regmap_read(m, "domain_addr")
           m2 == [m1 EXCEPT !.regval = Or(@, GMEM_CLAMP_IO_MASK)]
       IN  regmap_write(m2, "domain_addr", m2.regval)
  ELSE m

\* the register-toggled branch of gdsc_disable
gdsc_disable_toggle(m, st) ==
  gdsc_disable_clamp(gdsc_disable_poll(gdsc_disable_collapse(gdsc_disable_acd_misc(m)), st))

\* for (i = sc->reset_count - 1; i >= 0; i--) reset_control_assert(sc->reset_clocks[i])
RECURSIVE assert_from(_, _)
assert_from(m, i) ==
  IF i >= 0 THEN assert_from(reset_control_assert(m, i), i - 1) ELSE m

\* the reset-controlled branch of gdsc_disable
gdsc_disable_resets(m) ==
  [assert_from(m, m.sc.reset_count - 1) EXCEPT !.sc.resets_asserted = TRUE]


\* mutant of gdsc_disable_tail: the final is_gdsc_enabled = false is missing
gdsc_disable_tail_noflag(m) ==
  IF (m.sc.is_root_clk_voted /\ m.sc.root_en) \/ m.sc.force_root_en
  THEN [clk_disable_unprepare(m) EXCEPT !.sc.is_root_clk_voted = FALSE]
  ELSE m
\* mutant of gdsc_disable_tail: root_en releases the clock whether or not it is voted
gdsc_disable_tail_unvoted(m) ==
  LET m1 == IF m.sc.root_en \/ m.sc.force_root_en
            THEN [clk_disable_unprepare(m) EXCEPT !.sc.is_root_clk_voted = FALSE]
            ELSE m
  IN  [m1 EXCEPT !.sc.is_gdsc_enabled = FALSE]
\* release the root clock per policy; is_gdsc_enabled = false
gdsc_disable_tail(m) ==
  LET m1 == IF (m.sc.is_root_clk_voted /\ m.sc.root_en) \/ m.sc.force_root_en
            THEN [clk_disable_unprepare(m) EXCEPT !.sc.is_root_clk_voted = FALSE]
            ELSE m
  IN  [m1 EXCEPT !.sc.is_gdsc_enabled = FALSE]

\* mutant of gdsc_disable: a poll timeout goes to done at once
gdsc_disable_timeout_to_done(m, st, parent) ==
  LET m1 == gdsc_parent_check(m, parent)
  IN  IF m1.jump THEN gdsc_done(m1)
      ELSE LET m2 == gdsc_disable_root_clk(m1)
               p  == gdsc_disable_poll(gdsc_disable_collapse(gdsc_disable_acd_misc(m2)), st)
               m3 == IF m2.sc.toggle_logic
                     THEN IF p.ret # 0 THEN p ELSE gdsc_disable_clamp(p)
                     ELSE gdsc_disable_resets(m2)
           IN  IF m3.ret # 0 THEN gdsc_done(m3) ELSE gdsc_done(gdsc_disable_tail(m3))
\* mutant of gdsc_disable: the clamp of the register-toggled branch is also
\* applied after the reset lines of a reset-controlled domain
gdsc_disable_mixed(m, st, parent) ==
  LET m1 == gdsc_parent_check(m, parent)
  IN  IF m1.jump THEN gdsc_done(m1)
      ELSE LET m2 == gdsc_disable_root_clk(m1)
               m3 == IF m2.sc.toggle_logic THEN gdsc_disable_toggle(m2, st)
                     ELSE gdsc_disable_clamp(gdsc_disable_resets(m2))
           IN  gdsc_done(gdsc_disable_tail(m3))
gdsc_disable(m, st, parent) ==
  LET m1 == gdsc_parent_check(m, parent)
  IN  IF m1.jump THEN gdsc_done(m1)
      ELSE LET m2 == gdsc_disable_root_clk(m1)
               m3 == IF m2.sc.toggle_logic THEN gdsc_disable_toggle(m2, st)
                     ELSE gdsc_disable_resets(m2)
           IN  gdsc_done(gdsc_disable_tail(m3))

(* ------------------------ gdsc_get_mode / set_mode ------------------- *)
gdsc_init_hw_ctrl_mode(regval) == Test(regval, HW_CONTROL_MASK)

gdsc_get_mode(s) ==
  IF s.is_gdsc_hw_ctrl_mode THEN REGULATOR_MODE_FAST ELSE REGULATOR_MODE_NORMAL

\* ret = regmap_write(sc->regmap, REG_OFFSET, regval); io = "write" makes it fail
set_mode_write(m, io) ==
  IF io = "write" THEN [Emit(m, "write_failed", "regmap", m.regval, 0) EXCEPT !.ret = -EIO, !.jump = TRUE]
  ELSE [regmap_write(m, "regmap", m.regval) EXCEPT !.ret = 0]


\* mutant of gdsc_set_mode_fast: the mode flag is not recorded
gdsc_set_mode_fast_noflag(m, io) ==
  LET m1 == set_mode_write([m EXCEPT !.regval = Or(@, HW_CONTROL_MASK)], io)
  IN  IF m1.jump THEN m1 ELSE udelay(gdsc_mb(m1), 1)
\* case REGULATOR_MODE_FAST
gdsc_set_mode_fast(m, io) ==
  LET m1 == set_mode_write([m EXCEPT !.regval = Or(@, HW_CONTROL_MASK)], io)
  IN  IF m1.jump THEN m1
      ELSE [udelay(gdsc_mb(m1), 1) EXCEPT !.sc.is_gdsc_hw_ctrl_mode = TRUE]

\* mutant of gdsc_set_mode_normal: the status is polled whatever is_gdsc_enabled
gdsc_set_mode_normal_poll_always(m, io, st) ==
  LET m1 == set_mode_write([m EXCEPT !.regval = AndNot(@, HW_CONTROL_MASK)], io)
  IN  IF m1.jump THEN m1
      ELSE LET m2 == udelay(gdsc_mb(m1), 1)
               m3 == poll_gdsc_status(m2, GDSCR_ENABLED, st)
           IN  IF m3.ret # 0 THEN [m3 EXCEPT !.jump = TRUE]
               ELSE [m3 EXCEPT !.sc.is_gdsc_hw_ctrl_mode = FALSE]
\* case REGULATOR_MODE_NORMAL
gdsc_set_mode_normal(m, io, st) ==
  LET m1 == set_mode_write([m EXCEPT !.regval = AndNot(@, HW_CONTROL_MASK)], io)
  IN  IF m1.jump THEN m1
      ELSE LET m2 == udelay(gdsc_mb(m1), 1)
               m3 == IF m2.sc.is_gdsc_enabled THEN poll_gdsc_status(m2, GDSCR_ENABLED, st) ELSE m2
           IN  IF m3.ret # 0 THEN [m3 EXCEPT !.jump = TRUE]
               ELSE [m3 EXCEPT !.sc.is_gdsc_hw_ctrl_mode = FALSE]

\* mutant of gdsc_set_mode_body: a mode other than FAST is handled as NORMAL
gdsc_set_mode_body_nodefault(m, mode, io, st) ==
  IF io = "read" THEN [Emit(m, "read_failed", "regmap", {}, 0) EXCEPT !.ret = -EIO, !.jump = TRUE]
  ELSE LET m1 == [regmap_read(m, "regmap") EXCEPT !.ret = 0]
       IN  IF mode = REGULATOR_MODE_FAST THEN gdsc_set_mode_fast(m1, io)
           ELSE gdsc_set_mode_normal(m1, io, st)
\* ret = regmap_read(sc->regmap, REG_OFFSET, &regval); switch (mode) { ... }
gdsc_set_mode_body(m, mode, io, st) ==
  IF io = "read" THEN [Emit(m, "read_failed", "regmap", {}, 0) EXCEPT !.ret = -EIO, !.jump = TRUE]
  ELSE LET m1 == [regmap_read(m, "regmap") EXCEPT !.ret = 0]
       IN  IF mode = REGULATOR_MODE_FAST THEN gdsc_set_mode_fast(m1, io)
           ELSE IF mode = REGULATOR_MODE_NORMAL THEN gdsc_set_mode_normal(m1, io, st)
           ELSE [m1 EXCEPT !.ret = -EINVAL]

gdsc_set_mode(m, mode, io, st, parent) ==
  LET m1 == gdsc_parent_check(m, parent)
  IN  IF m1.jump THEN gdsc_done(m1)
      ELSE gdsc_done(gdsc_set_mode_body(m1, mode, io, st))

(* ------------------------------- state ------------------------------- *)
VARIABLES sc, regs, clk, rst, rdev, lock, call, run, parent_rdev, owner
vars == <<sc, regs, clk, rst, rdev, lock, call, run, parent_rdev, owner>>

RegNames == {"regmap", "domain_addr", "hw_ctrl", "sw_reset", "acd_reset",
             "acd_misc_reset", "collapse_vote"}

(* ----------------------- environment of a call ----------------------- *)
\* A status script gives the PWR_ON bit seen by each sample of a call.  A call
\* stops sampling at the first sample that matches, so the scripts that flip
\* once, at sample k, cover every outcome; len is the number of samples the
\* call can take, and k = len + 1 is the script that never flips.
\* Every flip point is taken for the short scripts, the one that never flips
\* included; the long ones (budget TIMEOUT_US) flip early, at the first, the
\* 5th or the 6th sample.
Flips(len) ==
  IF len <= 2 * MaxTimeout THEN 1..(len + 1)
  ELSE {1, 5, 6}
Rising(len) == {[i \in 1..len |-> IF i >= k THEN 1 ELSE 0] : k \in Flips(len)}
Falling(len) == {[i \in 1..len |-> IF i >= k THEN 0 ELSE 1] : k \in Flips(len)}
\* the script of a call that takes no status sample
NoScript == [i \in 1..(2 * MaxTimeout) |-> 0]
\* what regulator_is_enabled(rdev->supply) may return
ParentAnswers == IF rdev.supply THEN {1, 0, -EINVAL} ELSE {1}
Modes == {REGULATOR_MODE_FAST, REGULATOR_MODE_NORMAL, REGULATOR_MODE_IDLE}
IoOutcomes == {"ok", "read", "write"}

(* ------------------------------- probe ------------------------------- *)
\* gdsc_probe: the value written to GDSCR from its boot value; cdw is the
\* qcom,clk-dis-wait-val property (present or not, and its value as a word)
gdsc_probe_regval(boot, cdw, toggle_logic) ==
  LET r1 == AndNot(AndNot(boot, HW_CONTROL_MASK), SW_OVERRIDE_MASK)
      r2 == IF cdw.present
            THEN Or(AndNot(r1, CLK_DIS_WAIT_MASK), Shl(cdw.val, CLK_DIS_WAIT_SHIFT))
            ELSE r1
  IN  IF ~toggle_logic THEN AndNot(r2, SW_COLLAPSE_MASK) ELSE r2

\* mutant of gdsc_init_is_enabled: SW_COLLAPSE of GDSCR is read on vote domains too
gdsc_init_is_enabled_primary_only(c, r) ==
  IF ~c.toggle_logic THEN ~c.resets_asserted
  ELSE ~Test(r["regmap"], SW_COLLAPSE_MASK)
\* gdsc_init_is_enabled: the initial is_gdsc_enabled
gdsc_init_is_enabled(c, r) ==
  IF ~c.toggle_logic THEN ~c.resets_asserted
  ELSE IF c.collapse_vote.regmap
       THEN ~Test(r["collapse_vote"], BIT(c.collapse_vote.vote_bit))
       ELSE ~Test(r["regmap"], SW_COLLAPSE_MASK)

(* --------------------------- configurations -------------------------- *)
VoteBit == 5
OtherVoteBit == 3
\* every bit the driver names in some register: 0, 1, 2, 4, 11, 12..15
NamedBits == {0, 1, 2, 4, 11} \cup CLK_DIS_WAIT_MASK
\* boot contents of the optional register words: the documented reset state
\* (clamped, out of reset, own vote set), and words with every named bit set
\* (own vote clear, another voter's bit set)
CleanOther == [domain_addr |-> GMEM_CLAMP_IO_MASK, sw_reset |-> {}, acd |-> {},
               vote |-> BIT(VoteBit)]
DirtyOther == [domain_addr |-> NamedBits,
               sw_reset |-> NamedBits \ (BCR_BLK_ARES_BIT \cup RETAIN_FF_ENABLE_MASK),
               acd |-> BCR_BLK_ARES_BIT, vote |-> BIT(OtherVoteBit)]
\* boot value of GDSCR with the qcom,clk-dis-wait-val property
NoCdw == [present |-> FALSE, val |-> {}]
\* 0x1: collapsed, nothing else set
BootCollapsed == [gdscr |-> SW_COLLAPSE_MASK, cdw |-> NoCdw]
\* 0x2806: on, under HW control with SW override, retention on, wait field 2;
\* the property sets the wait field to 5
BootOn == [gdscr |-> {1, 2, 11, 13}, cdw |-> [present |-> TRUE, val |-> {0, 2}]]
Boots == { <<BootCollapsed, CleanOther>>, <<BootCollapsed, DirtyOther>>,
           <<BootOn, CleanOther>> }

ResetRegs == { <<FALSE, FALSE, FALSE>>, <<TRUE, TRUE, TRUE>>, <<FALSE, FALSE, TRUE>> }
DomainAddrs == { <<FALSE, FALSE>>, <<TRUE, FALSE>>, <<TRUE, TRUE>> }

Config(tl, skip, vote, hw, rr, da, retain, root, force, nostat, nrst, tmo, sup) ==
  [ toggle_logic |-> tl, skip_disable_before_enable |-> skip,
    collapse_vote |-> [regmap |-> vote, vote_bit |-> VoteBit],
    hw_ctrl |-> hw, sw_reset |-> rr[1], acd_reset |-> rr[2], acd_misc_reset |-> rr[3],
    domain_addr |-> da[1], reset_aon |-> da[2], retain_ff_enable |-> retain,
    root_en |-> root, force_root_en |-> force, no_status_check_on_disable |-> nostat,
    reset_count |-> nrst, gds_timeout |-> tmo, supply |-> sup ]

None3 == <<FALSE, FALSE, FALSE>>
None2 == <<FALSE, FALSE>>
All3 == <<TRUE, TRUE, TRUE>>
All2 == <<TRUE, TRUE>>

\* every register layout of a register-toggled domain, from every boot image
LayoutDomains ==
  { Config(TRUE, FALSE, vote, hw, rr, da, retain, FALSE, FALSE, FALSE, 0, MaxTimeout, FALSE) :
      vote \in BOOLEAN, hw \in BOOLEAN, rr \in ResetRegs, da \in DomainAddrs,
      retain \in BOOLEAN } \X Boots
\* every clock, status-check, timeout and parent policy of a register-toggled domain
PolicyDomains ==
  { Config(TRUE, FALSE, FALSE, hw, None3, None2, FALSE, root, force, nostat, 0, tmo, sup) :
      hw \in BOOLEAN, root \in BOOLEAN, force \in BOOLEAN, nostat \in BOOLEAN,
      tmo \in 1..MaxTimeout, sup \in BOOLEAN } \X { <<BootCollapsed, CleanOther>> }
\* skip_disable_before_enable domains of both families
SkipDomains ==
  { Config(tl, TRUE, full, full, IF full THEN All3 ELSE None3, IF full THEN All2 ELSE None2,
           full, root, root, FALSE, IF tl THEN 0 ELSE MaxResets, MaxTimeout, sup) :
      tl \in BOOLEAN, full \in BOOLEAN, root \in BOOLEAN, sup \in BOOLEAN }
    \X { <<BootCollapsed, CleanOther>>, <<BootOn, DirtyOther>> }
\* reset-controlled domains, with every optional register present
ResetDomains ==
  { Config(FALSE, FALSE, TRUE, TRUE, All3, All2, TRUE, root, force, FALSE, nrst, MaxTimeout, sup) :
      root \in BOOLEAN, force \in BOOLEAN, nrst \in 0..MaxResets, sup \in BOOLEAN }
    \X { <<BootOn, DirtyOther>> }
Domains == LayoutDomains \cup PolicyDomains \cup SkipDomains \cup ResetDomains

(* -------------------------------- Init ------------------------------- *)
\* call is the record of the last call: the operation, its mode argument, the
\* value it returned, its events in order, the number of status samples it
\* took, and the state it started from.
NoCall == [op |-> "probe", mode |-> 0, ret |-> 0, ev |-> <<>>, n |-> 0,
           pre |-> [sc |-> <<>>, regs |-> <<>>, clk |-> 0, rst |-> <<>>]]
\* run is the call in flight when the handlers are run step by step (SpecConc):
\* its machine m at return, the position i of its next event, the state it
\* started from.  parent_rdev is the parent supply: whether it is enabled, and
\* whether a transition of it is in progress.  owner is the holder of the
\* parent's lock.
Idle == [pc |-> "idle", op |-> "-", mode |-> 0, m |-> <<>>, i |-> 0, pre |-> <<>>]

InitRegs(c, bg, bo) ==
  [r \in RegNames |->
     CASE r = "regmap" -> gdsc_probe_regval(bg.gdscr, bg.cdw, c.toggle_logic)
       [] r = "domain_addr" -> IF c.domain_addr THEN bo.domain_addr ELSE {}
       [] r = "sw_reset" -> IF c.sw_reset THEN bo.sw_reset ELSE {}
       [] r = "acd_reset" -> IF c.acd_reset THEN bo.acd ELSE {}
       [] r = "acd_misc_reset" -> IF c.acd_misc_reset THEN bo.acd ELSE {}
       [] r = "collapse_vote" -> IF c.collapse_vote.regmap THEN bo.vote ELSE {}
       [] OTHER -> {}]

\* struct gdsc after gdsc_probe: kzalloc'ed runtime flags, then the two init reads
InitSc(c, r) ==
  LET z == [toggle_logic |-> c.toggle_logic,
            skip_disable_before_enable |-> c.skip_disable_before_enable,
            collapse_vote |-> c.collapse_vote, hw_ctrl |-> c.hw_ctrl,
            sw_reset |-> c.sw_reset, acd_reset |-> c.acd_reset,
            acd_misc_reset |-> c.acd_misc_reset, domain_addr |-> c.domain_addr,
            reset_aon |-> c.reset_aon, retain_ff_enable |-> c.retain_ff_enable,
            root_en |-> c.root_en, force_root_en |-> c.force_root_en,
            no_status_check_on_disable |-> c.no_status_check_on_disable,
            reset_count |-> c.reset_count, gds_timeout |-> c.gds_timeout,
            resets_asserted |-> FALSE, is_gdsc_enabled |-> FALSE,
            is_gdsc_hw_ctrl_mode |-> FALSE, is_root_clk_voted |-> FALSE]
  IN  [z EXCEPT !.is_gdsc_enabled = gdsc_init_is_enabled(z, r),
                !.is_gdsc_hw_ctrl_mode = gdsc_init_hw_ctrl_mode(r["regmap"])]

\* the state gdsc_probe leaves for the domain d = <<configuration, boot image>>
InitFrom(d) ==
  LET c == d[1]
      b == d[2]
  IN
  /\ regs = InitRegs(c, b[1], b[2])
  /\ sc = InitSc(c, regs)
  /\ clk = 0
  /\ rst = [i \in 0..(c.reset_count - 1) |-> FALSE]
  /\ rdev = [supply |-> c.supply]
  /\ lock = 0
  /\ call = NoCall
  /\ run = Idle
  /\ parent_rdev = [on |-> TRUE, pc |-> "idle"]
  /\ owner = "none"

Init == \E d \in Domains : InitFrom(d)

(* ------------------------------ actions ------------------------------ *)
\* the machine at the entry of a handler
Begin == [sc |-> sc, regs |-> regs, clk |-> clk, rst |-> rst, supply |-> rdev.supply,
          lock |-> lock, regval |-> {}, n |-> 0, ev |-> <<>>, ret |-> 0,
          done |-> FALSE, jump |-> FALSE]

Pre == [sc |-> sc, regs |-> regs, clk |-> clk, rst |-> rst]

\* the state after a handler returned with machine m
Finish(m, op, mode) ==
  /\ sc' = m.sc
  /\ regs' = m.regs
  /\ clk' = m.clk
  /\ rst' = m.rst
  /\ lock' = m.lock
  /\ call' = [op |-> op, mode |-> mode, ret |-> m.ret, ev |-> m.ev, n |-> m.n, pre |-> Pre]
  /\ UNCHANGED <<rdev, run, parent_rdev, owner>>

\* the samples one poll_gdsc_status can take, and those gdsc_enable can take
PollSamples == sc.gds_timeout
EnableSamples == IF sc.hw_ctrl THEN 2 * sc.gds_timeout ELSE sc.gds_timeout

\* A caller needs the parent lock free; the root clock count is capped.
Enable ==
  /\ lock = 0
  /\ clk < MaxClk
  /\ \E st \in Rising(EnableSamples) : Finish(gdsc_enable(Begin, st), "enable", 0)

\* An input the call cannot consume is fixed: no status script is consulted
\* after the parent check failed.
Disable ==
  /\ lock = 0
  /\ \E parent \in ParentAnswers :
       \E st \in IF parent = 1 THEN Falling(PollSamples) ELSE {NoScript} :
         Finish(gdsc_disable(Begin, st, parent), "disable", 0)

\* io names the regmap access of gdsc_set_mode that fails, if any; only
\* set_mode(NORMAL) with working I/O can sample the status.
SetMode ==
  /\ lock = 0
  /\ \E mode \in Modes, parent \in ParentAnswers :
       \E io \in IF parent = 1 THEN IoOutcomes ELSE {"ok"} :
         \E st \in IF parent = 1 /\ io = "ok" /\ mode = REGULATOR_MODE_NORMAL
                   THEN Rising(PollSamples) ELSE {NoScript} :
           Finish(gdsc_set_mode(Begin, mode, io, st, parent), "set_mode", mode)

Next == Enable \/ Disable \/ SetMode

Spec == Init /\ [][Next]_vars

(* ------------------- the Poll Engine with real budgets --------------- *)
\* Budgets of poll_gdsc_status: the small ones, 0 (the loop body never runs),
\* and TIMEOUT_US, the default of qcom,gds-timeout.
PollBudgets == (0..MaxTimeout) \cup {TIMEOUT_US}
\* register-toggled domains with and without a hardware-status register
PollDomains ==
  { Config(TRUE, FALSE, FALSE, hw, None3, None2, FALSE, FALSE, FALSE, FALSE, 0, tmo, FALSE) :
      hw \in BOOLEAN, tmo \in PollBudgets } \X { <<BootCollapsed, CleanOther>> }

InitPoll == \E d \in PollDomains : InitFrom(d)

\* poll_gdsc_status(sc, status) on its own; call.mode holds the PWR_ON value
\* the poll waits for (1 for ENABLED, 0 for DISABLED)
Poll ==
  /\ lock = 0
  /\ \/ \E st \in Rising(PollSamples) :
          Finish(poll_gdsc_status(Begin, GDSCR_ENABLED, st), "poll", 1)
     \/ \E st \in Falling(PollSamples) :
          Finish(poll_gdsc_status(Begin, GDSCR_DISABLED, st), "poll", 0)

NextPoll == Poll \/ Enable

SpecPoll == InitPoll /\ [][NextPoll]_vars

(* ---------------- disable / set_mode against the parent -------------- *)
\* The handlers run one event at a time, interleaved with a parent supply that
\* changes its enabled state only while it holds its own lock, the lock that
\* regulator_lock(rdev->supply->rdev) takes.
ConcDomains ==
  ( { Config(TRUE, FALSE, FALSE, hw, None3, da, FALSE, FALSE, force, nostat, 0, MaxTimeout, TRUE) :
        hw \in BOOLEAN, da \in {None2, <<TRUE, FALSE>>}, force \in BOOLEAN,
        nostat \in BOOLEAN }
    \cup
    { Config(FALSE, FALSE, FALSE, FALSE, None3, None2, FALSE, FALSE, FALSE, FALSE,
             MaxResets, MaxTimeout, TRUE) } )
  \X { <<BootCollapsed, CleanOther>>, <<BootOn, CleanOther>> }

InitConc == \E d \in ConcDomains : InitFrom(d)

\* what regulator_is_enabled(rdev->supply) returns now, when it does not fail
ParentAnswer == IF parent_rdev.on THEN 1 ELSE 0

\* the calls a caller can start now: the handler run to its return from the
\* present state, with the parent answering as it stands or failing
ChildCalls ==
  { [op |-> "disable", mode |-> 0, m |-> gdsc_disable(Begin, st, a)] :
      st \in Falling(PollSamples), a \in {ParentAnswer, -EINVAL} }
  \cup
  { [op |-> "set_mode", mode |-> x[1], m |-> gdsc_set_mode(Begin, x[1], x[2], st, a)] :
      x \in Modes \X IoOutcomes, st \in Rising(PollSamples), a \in {ParentAnswer, -EINVAL} }

\* the events that access a register of the domain (gdsc_mb is a read of GDSCR)
AccessKinds == {"read", "write", "sample", "mb", "read_failed", "write_failed"}

\* One event e of the call in flight takes place: regulator_lock waits for the
\* lock to be free, regulator_is_enabled reports the parent as it is, a write
\* reaches its register.
ChildEvent(e) ==
  /\ e.t = "lock" => owner = "none"
  /\ e.t = "is_enabled" => (e.k < 0 \/ e.k = ParentAnswer)
  /\ owner' = IF e.t = "lock" THEN "child" ELSE IF e.t = "unlock" THEN "none" ELSE owner
  /\ lock' = IF e.t = "lock" THEN lock + 1 ELSE IF e.t = "unlock" THEN lock - 1 ELSE lock
  /\ regs' = IF e.t = "write" THEN [regs EXCEPT ![e.r] = e.v] ELSE regs

\* the call starts with its first event
ChildEnter ==
  /\ run.pc = "idle"
  /\ \E c \in ChildCalls :
       /\ ChildEvent(c.m.ev[1])
       /\ run' = [pc |-> "running", op |-> c.op, mode |-> c.mode, m |-> c.m, i |-> 2,
                  pre |-> Pre]
  /\ UNCHANGED <<sc, clk, rst, rdev, call, parent_rdev>>

ChildStep ==
  /\ run.pc = "running"
  /\ run.i <= Len(run.m.ev)
  /\ ChildEvent(run.m.ev[run.i])
  /\ run' = [run EXCEPT !.i = @ + 1]
  /\ UNCHANGED <<sc, clk, rst, rdev, call, parent_rdev>>

\* the handler returns: its flags, clock and reset lines are those of m
ChildReturn ==
  /\ run.pc = "running"
  /\ run.i > Len(run.m.ev)
  /\ sc' = run.m.sc
  /\ clk' = run.m.clk
  /\ rst' = run.m.rst
  /\ call' = [op |-> run.op, mode |-> run.mode, ret |-> run.m.ret, ev |-> run.m.ev,
              n |-> run.m.n, pre |-> run.pre]
  /\ run' = Idle
  /\ UNCHANGED <<regs, rdev, lock, owner, parent_rdev>>

\* the parent takes its lock, changes its enabled state, releases the lock
ParentLock ==
  /\ owner = "none" /\ parent_rdev.pc = "idle"
  /\ owner' = "parent"
  /\ parent_rdev' = [parent_rdev EXCEPT !.pc = "locked"]
  /\ UNCHANGED <<sc, regs, clk, rst, rdev, lock, call, run>>

ParentToggle ==
  /\ parent_rdev.pc = "locked"
  /\ parent_rdev' = [on |-> ~parent_rdev.on, pc |-> "changed"]
  /\ UNCHANGED <<sc, regs, clk, rst, rdev, lock, call, run, owner>>

ParentUnlock ==
  /\ owner = "parent" /\ parent_rdev.pc = "changed"
  /\ owner' = "none"
  /\ parent_rdev' = [parent_rdev EXCEPT !.pc = "idle"]
  /\ UNCHANGED <<sc, regs, clk, rst, rdev, lock, call, run>>

NextConc ==
  ChildEnter \/ ChildStep \/ ChildReturn \/ ParentLock \/ ParentToggle \/ ParentUnlock

SpecConc == InitConc /\ [][NextConc]_vars

(* ------------------ calls that wait, run and return ------------------ *)
\* A caller makes a call; the handler starts when its first event can take
\* place (for disable and set_mode of a domain with a parent, when the parent
\* lock is free), then runs one event at a time and returns.  The parent
\* supply takes and releases its lock as above.
LiveDomains ==
  { Config(TRUE, FALSE, FALSE, hw, None3, None2, FALSE, FALSE, FALSE, FALSE, 0, MaxTimeout, sup) :
      hw \in BOOLEAN, sup \in BOOLEAN } \X { <<BootCollapsed, CleanOther>> }

InitLive == \E d \in LiveDomains : InitFrom(d)

\* what regulator_is_enabled(rdev->supply) can return when the handler asks
LiveAnswers == {1, 0, -EINVAL}

\* the calls of gdsc_ops a consumer can make now: for each status script, the
\* handler run to its return under each answer of the parent
LiveCalls ==
  { [op |-> "enable", mode |-> 0, m |-> [a \in LiveAnswers |-> gdsc_enable(Begin, st)]] :
      st \in Rising(EnableSamples) }
  \cup
  { [op |-> "disable", mode |-> 0, m |-> [a \in LiveAnswers |-> gdsc_disable(Begin, st, a)]] :
      st \in Falling(PollSamples) }
  \cup
  { [op |-> "set_mode", mode |-> x[1],
     m |-> [a \in LiveAnswers |-> gdsc_set_mode(Begin, x[1], x[2], st, a)]] :
      x \in Modes \X IoOutcomes, st \in Rising(PollSamples) }

\* a consumer calls enable, disable or set_mode; while the call waits, run.m
\* holds its run under each answer of the parent
LiveRequest ==
  /\ run.pc = "idle"
  /\ \E c \in LiveCalls :
       run' = [pc |-> "waiting", op |-> c.op, mode |-> c.mode, m |-> c.m, i |-> 1,
               pre |-> Pre]
  /\ UNCHANGED <<sc, regs, clk, rst, rdev, lock, call, parent_rdev, owner>>

\* the handler starts with its first event; the parent answers as it stands,
\* or fails to answer
LiveEnter ==
  /\ run.pc = "waiting"
  /\ \E a \in {ParentAnswer, -EINVAL} :
       /\ ChildEvent(run.m[a].ev[1])
       /\ run' = [run EXCEPT !.pc = "running", !.m = run.m[a], !.i = 2]
  /\ UNCHANGED <<sc, clk, rst, rdev, call, parent_rdev>>

NextLive ==
  LiveRequest \/ LiveEnter \/ ChildStep \/ ChildReturn
    \/ ParentLock \/ ParentToggle \/ ParentUnlock

\* A handler that can take a step takes it; a caller waiting for the parent
\* lock gets it if it is free again and again; the parent, once it holds its
\* lock, changes state and releases it.
SpecLive ==
  /\ InitLive /\ [][NextLive]_vars
  /\ SF_vars(LiveEnter)
  /\ WF_vars(ChildStep) /\ WF_vars(ChildReturn)
  /\ WF_vars(ParentToggle) /\ WF_vars(ParentUnlock)


(* ===================================================================== *)
(*                               Claims                                  *)
(* ===================================================================== *)
\* positions of the events of kind t in the last call
EvIdx(t) == {i \in DOMAIN call.ev : call.ev[i].t = t}
\* positions of the writes to register r in the last call
WritesTo(r) == {i \in EvIdx("write") : call.ev[i].r = r}
\* the PWR_ON bits sampled by the last call, in order
Samples == SelectSeq(call.ev, LAMBDA e : e.t = "sample")
\* the call sampled the status and no sample showed PWR_ON = b
NeverSampled(b) == call.n > 0 /\ \A i \in DOMAIN Samples : Samples[i].k # b
\* every sample of the call showed PWR_ON = b
AlwaysSampled(b) == \A i \in DOMAIN Samples : Samples[i].k = b
\* the parent supply answered a to regulator_is_enabled in the last call
ParentAnswered(a) == \E i \in EvIdx("is_enabled") : call.ev[i].k = a
\* the domain's collapse request bit: the vote bit, or SW_COLLAPSE of GDSCR
CollapseRequested(s, r) ==
  IF s.collapse_vote.regmap THEN Test(r["collapse_vote"], BIT(s.collapse_vote.vote_bit))
  ELSE Test(r["regmap"], SW_COLLAPSE_MASK)

C2_DisableThenNotEnabled ==
  (call.op = "disable" /\ call.ret = 0) => ~gdsc_is_enabled(sc)

C2_Witness ==
  /\ call.op = "disable" /\ call.ret = 0
  /\ gdsc_is_enabled(call.pre.sc)
  /\ ~gdsc_is_enabled(sc)

\* C3: Busy rule.  When HW_CONTROL of GDSCR is set at the time enable() is
\* called on a domain without skip_disable_before_enable, enable() returns
\* -EBUSY, writes no register (GDSCR, vote, domain address, SW reset, ACD
\* resets all keep their words), and is_enabled() answers as before.
C3_BusyRule ==
  (/\ call.op = "enable"
   /\ ~call.pre.sc.skip_disable_before_enable
   /\ Test(call.pre.regs["regmap"], HW_CONTROL_MASK))
    => /\ call.ret = -EBUSY
       /\ EvIdx("write") = {}
       /\ regs = call.pre.regs
       /\ sc.is_gdsc_enabled = call.pre.sc.is_gdsc_enabled
       /\ gdsc_is_enabled(sc) = gdsc_is_enabled(call.pre.sc)

C3_Witness ==
  /\ call.op = "enable" /\ call.ret = -EBUSY
  /\ sc.toggle_logic
  /\ Test(call.pre.regs["regmap"], HW_CONTROL_MASK)
  /\ CollapseRequested(sc, regs)

\* C4 (as stated): when no sample of the polled status shows the expected
\* PWR_ON value, enable() and disable() return -ETIMEDOUT after exactly
\* gds_timeout samples, enable() taking at most one sample more.
C4_Original ==
  /\ (call.op = "enable" /\ NeverSampled(1))
       => /\ call.ret = -ETIMEDOUT
          /\ call.n \in {sc.gds_timeout, sc.gds_timeout + 1}
  /\ (call.op = "disable" /\ NeverSampled(0))
       => /\ call.ret = -ETIMEDOUT
          /\ call.n = sc.gds_timeout

\* C4 (amended): when no sample of the polled status shows the expected
\* PWR_ON value, disable() returns -ETIMEDOUT after exactly gds_timeout
\* samples; enable() returns -ETIMEDOUT after exactly gds_timeout samples on
\* a domain without a hardware-status register and after exactly
\* 2 * gds_timeout samples (two full polls) on a domain with one.  A call
\* returns -ETIMEDOUT only in that case.
C4_TimeoutRule ==
  /\ (call.op = "enable" /\ NeverSampled(1))
       => /\ call.ret = -ETIMEDOUT
          /\ call.n = IF sc.hw_ctrl THEN 2 * sc.gds_timeout ELSE sc.gds_timeout
  /\ (call.op = "disable" /\ NeverSampled(0))
       => /\ call.ret = -ETIMEDOUT
          /\ call.n = sc.gds_timeout
  /\ (call.op = "enable" /\ call.ret = -ETIMEDOUT) => NeverSampled(1)
  /\ (call.op = "disable" /\ call.ret = -ETIMEDOUT) => NeverSampled(0)

C4_Witness ==
  /\ call.op = "enable" /\ call.ret = -ETIMEDOUT
  /\ sc.hw_ctrl /\ sc.gds_timeout >= 2
  /\ NeverSampled(1)
  /\ call.n = 2 * sc.gds_timeout

\* C5: Parent-lock rule.  When the domain has a parent supply and the parent
\* reports not-enabled, disable() and set_mode() return -EIO, write no
\* register, and leave every runtime flag and the root clock as they were.
C5_ParentLockRule ==
  (/\ call.op \in {"disable", "set_mode"}
   /\ rdev.supply
   /\ ParentAnswered(0))
    => /\ call.ret = -EIO
       /\ EvIdx("write") = {}
       /\ regs = call.pre.regs
       /\ sc = call.pre.sc
       /\ clk = call.pre.clk
       /\ rst = call.pre.rst
       /\ EvIdx("clk_enable") \cup EvIdx("clk_disable") = {}

C5_Witness ==
  /\ call.op = "disable" /\ call.ret = -EIO
  /\ rdev.supply /\ ParentAnswered(0)
  /\ sc.is_gdsc_enabled
  /\ ~CollapseRequested(sc, regs)

\* C6: Vote-bit rule.  On a domain configured with vote bit k, no enable() or
\* disable() changes SW_COLLAPSE (bit 0) of GDSCR, and bit k is the only bit
\* of the vote register they change.
C6_VoteBitRule ==
  (/\ call.op \in {"enable", "disable"}
   /\ sc.collapse_vote.regmap)
    => /\ Test(regs["regmap"], SW_COLLAPSE_MASK)
            = Test(call.pre.regs["regmap"], SW_COLLAPSE_MASK)
       /\ AndNot(regs["collapse_vote"], BIT(sc.collapse_vote.vote_bit))
            = AndNot(call.pre.regs["collapse_vote"], BIT(sc.collapse_vote.vote_bit))

\* the lock and unlock events of the last call
Locks == EvIdx("lock")
Unlocks == EvIdx("unlock")
\* the call takes the parent lock: disable() and set_mode() of a domain with a parent
TakesLock == rdev.supply /\ call.op \in {"disable", "set_mode"}

\* C7: whatever the exit path (success, parent disabled, parent query error,
\* register I/O error, poll timeout, invalid mode), no call returns holding
\* the parent lock: the lock is taken at most once, as the first event of the
\* call, and released exactly once, as its last event.
C7_LockReleased ==
  /\ lock = 0
  /\ call.op \in {"enable", "disable", "set_mode"} =>
       IF TakesLock
       THEN /\ Locks = {1}
            /\ Unlocks = {Len(call.ev)}
            /\ Len(call.ev) > 1
       ELSE Locks = {} /\ Unlocks = {}

C7_Witness ==
  /\ call.op = "set_mode" /\ call.ret = -ETIMEDOUT
  /\ rdev.supply
  /\ Locks = {1} /\ Unlocks = {Len(call.ev)}
  /\ lock = 0

\* the reset lines touched by the events of kind t of the last call, in order
LineOrder(t) ==
  LET es == SelectSeq(call.ev, LAMBDA e : e.t = t)
  IN  [i \in DOMAIN es |-> es[i].k]
Ascending(n) == [i \in 1..n |-> i - 1]
Descending(n) == [i \in 1..n |-> n - i]

\* C8 (as stated): on a reset-controlled domain with lines 0..n-1, enable()
\* de-asserts the lines in increasing order and disable() asserts them in
\* decreasing order, each line exactly once per call.
C8_Original ==
  ~sc.toggle_logic =>
    /\ call.op = "enable" => LineOrder("deassert") = Ascending(sc.reset_count)
    /\ call.op = "disable" => LineOrder("assert") = Descending(sc.reset_count)

\* C8 (amended): on a reset-controlled domain with lines 0..n-1, every
\* enable() that returns success on a domain without
\* skip_disable_before_enable de-asserts the lines in increasing order, and
\* every disable() that returns success asserts them in decreasing order,
\* each line exactly once per call; a call that returns otherwise (the no-op
\* of a skip domain, -EBUSY, a failed parent check) touches no reset line, and
\* no call both asserts and de-asserts.
C8_ResetOrder ==
  ~sc.toggle_logic =>
    /\ call.op = "enable" =>
         /\ LineOrder("assert") = <<>>
         /\ LineOrder("deassert") =
              IF call.ret = 0 /\ ~sc.skip_disable_before_enable
              THEN Ascending(sc.reset_count) ELSE <<>>
    /\ call.op = "disable" =>
         /\ LineOrder("deassert") = <<>>
         /\ LineOrder("assert") =
              IF call.ret = 0 THEN Descending(sc.reset_count) ELSE <<>>
    /\ call.op = "set_mode" =>
         LineOrder("assert") = <<>> /\ LineOrder("deassert") = <<>>

C8_Witness ==
  /\ ~sc.toggle_logic /\ sc.reset_count >= 2
  /\ call.op = "enable" /\ call.ret = 0
  /\ call.pre.sc.resets_asserted
  /\ \A i \in DOMAIN call.pre.rst : call.pre.rst[i]
  /\ LineOrder("deassert") = Ascending(sc.reset_count)
  /\ \A i \in DOMAIN rst : ~rst[i]

\* the parent check and the register I/O of the call c went well
CleanCall(c) ==
  \A i \in DOMAIN c.ev :
    /\ c.ev[i].t \notin {"read_failed", "write_failed"}
    /\ c.ev[i].t = "is_enabled" => c.ev[i].k = 1
\* every status sample of the call c showed PWR_ON = 1
Powered(c) == \A i \in DOMAIN c.ev : c.ev[i].t = "sample" => c.ev[i].k = 1
SetModeCall(c, mode) == c.op = "set_mode" /\ c.mode = mode /\ CleanCall(c)

\* C9: with is_gdsc_enabled true, the parent (if any) enabled and a status
\* that always shows PWR_ON, set_mode(FAST) returns 0 and leaves get_mode()
\* = FAST and HW_CONTROL = 1, and a set_mode(NORMAL) that follows it returns
\* 0 and leaves get_mode() = NORMAL and HW_CONTROL = 0.
C9_ModeRoundTrip ==
  [][ /\ (SetModeCall(call', REGULATOR_MODE_FAST) /\ sc.is_gdsc_enabled)
         => /\ call'.ret = 0
            /\ gdsc_get_mode(sc') = REGULATOR_MODE_FAST
            /\ Test(regs'["regmap"], HW_CONTROL_MASK)
      /\ (/\ SetModeCall(call, REGULATOR_MODE_FAST) /\ call.ret = 0
          /\ sc.is_gdsc_enabled
          /\ SetModeCall(call', REGULATOR_MODE_NORMAL) /\ Powered(call'))
         => /\ call'.ret = 0
            /\ call'.n = 1
            /\ gdsc_get_mode(sc') = REGULATOR_MODE_NORMAL
            /\ ~Test(regs'["regmap"], HW_CONTROL_MASK) ]_vars

C9_Witness ==
  /\ SetModeCall(call, REGULATOR_MODE_NORMAL) /\ call.ret = 0 /\ call.n = 1
  /\ call.pre.sc.is_gdsc_enabled
  /\ call.pre.sc.is_gdsc_hw_ctrl_mode
  /\ Test(call.pre.regs["regmap"], HW_CONTROL_MASK)
  /\ gdsc_get_mode(sc) = REGULATOR_MODE_NORMAL
  /\ ~Test(regs["regmap"], HW_CONTROL_MASK)

\* the events of the call c show an enable() that found HW_CONTROL clear
\* (its first register read is the read of GDSCR) and a powered status
EnableCall(c) ==
  /\ c.op = "enable"
  /\ ~Test(c.pre.regs["regmap"], HW_CONTROL_MASK)
  /\ Powered(c)

\* C10: Idempotence of enable.  On a register-toggled domain whose
\* HW_CONTROL bit is clear and whose status shows PWR_ON, two consecutive
\* enable() calls both return 0, leave HW_CONTROL clear, and the second
\* leaves is_gdsc_enabled, is_gdsc_hw_ctrl_mode, the collapse request bit and
\* the clamp bit as the first left them.
C10_EnableIdempotent ==
  [][ (/\ sc.toggle_logic
       /\ EnableCall(call)
       /\ call'.op = "enable" /\ Powered(call'))
      => /\ call.ret = 0
         /\ call'.ret = 0
         /\ ~Test(regs["regmap"], HW_CONTROL_MASK)
         /\ ~Test(regs'["regmap"], HW_CONTROL_MASK)
         /\ sc'.is_gdsc_enabled = sc.is_gdsc_enabled
         /\ sc'.is_gdsc_hw_ctrl_mode = sc.is_gdsc_hw_ctrl_mode
         /\ CollapseRequested(sc', regs') = CollapseRequested(sc, regs)
         /\ Test(regs'["domain_addr"], GMEM_CLAMP_IO_MASK)
              = Test(regs["domain_addr"], GMEM_CLAMP_IO_MASK) ]_vars

\* the same, on the domains where gdsc_enable_retain cannot write a word
\* read from another register into GDSCR
C10_EnableIdempotentNoStale ==
  [][ (/\ sc.toggle_logic
       /\ ~(sc.collapse_vote.regmap /\ sc.retain_ff_enable)
       /\ EnableCall(call)
       /\ call'.op = "enable" /\ Powered(call'))
      => /\ call.ret = 0
         /\ call'.ret = 0
         /\ ~Test(regs["regmap"], HW_CONTROL_MASK)
         /\ ~Test(regs'["regmap"], HW_CONTROL_MASK)
         /\ sc'.is_gdsc_enabled = sc.is_gdsc_enabled
         /\ sc'.is_gdsc_hw_ctrl_mode = sc.is_gdsc_hw_ctrl_mode
         /\ CollapseRequested(sc', regs') = CollapseRequested(sc, regs)
         /\ Test(regs'["domain_addr"], GMEM_CLAMP_IO_MASK)
              = Test(regs["domain_addr"], GMEM_CLAMP_IO_MASK) ]_vars

\* the delays of the last call that lie between its first and its last status sample
PollDelays ==
  {i \in EvIdx("udelay") : \E a, b \in EvIdx("sample") : a < i /\ i < b}

\* C11: Poll Engine.  poll_gdsc_status samples the PWR_ON bit of the polled
\* register (the hardware-status register when there is one) and returns 0 at
\* the first sample k <= gds_timeout that shows the expected value, after k
\* samples and k - 1 delays of 1 us, one after each failed sample; it returns
\* -ETIMEDOUT after exactly gds_timeout failed samples and gds_timeout
\* delays; it writes no register and changes no state.  With gds_timeout =
\* 100 and a status that shows PWR_ON from the 5th or the 6th sample on,
\* enable() returns 0 after 4 or 5 us of poll delay and is_enabled() is true.
C11_PollEngine ==
  /\ call.op = "poll" =>
       /\ call.ret \in {0, -ETIMEDOUT}
       /\ Len(Samples) = call.n
       /\ \A i \in DOMAIN call.ev :
            IF i % 2 = 1
            THEN call.ev[i].t = "sample" /\ call.ev[i].r = PolledReg([sc |-> sc])
            ELSE call.ev[i].t = "udelay" /\ call.ev[i].k = 1
       /\ call.ret = 0 =>
            /\ call.n \in 1..sc.gds_timeout
            /\ Len(call.ev) = 2 * call.n - 1
            /\ Samples[call.n].k = call.mode
            /\ \A i \in 1..(call.n - 1) : Samples[i].k # call.mode
       /\ call.ret = -ETIMEDOUT =>
            /\ call.n = sc.gds_timeout
            /\ Len(call.ev) = 2 * sc.gds_timeout
            /\ \A i \in 1..call.n : Samples[i].k # call.mode
       /\ regs = call.pre.regs /\ sc = call.pre.sc
       /\ clk = call.pre.clk /\ rst = call.pre.rst
  /\ (/\ call.op = "enable"
      /\ sc.gds_timeout = TIMEOUT_US
      /\ ~Test(call.pre.regs["regmap"], HW_CONTROL_MASK)
      /\ call.n \in {5, 6}
      /\ Samples[call.n].k = 1)
       => /\ call.ret = 0
          /\ gdsc_is_enabled(sc)
          /\ Cardinality(PollDelays) = call.n - 1
          /\ \A i \in PollDelays : call.ev[i].k = 1

C11_Witness ==
  /\ call.op = "enable" /\ call.ret = 0
  /\ sc.gds_timeout = TIMEOUT_US
  /\ call.n = 5 /\ Len(Samples) = 5
  /\ \A i \in 1..4 : Samples[i].k = 0
  /\ Samples[5].k = 1
  /\ Cardinality(PollDelays) = 4
  /\ ~gdsc_is_enabled(call.pre.sc)
  /\ gdsc_is_enabled(sc)

\* C12 (as stated): is_enabled() returns false for every domain configured
\* with skip_disable_before_enable, in every reachable state and for both
\* families, whatever the runtime flags and the registers hold.
C12_Original ==
  sc.skip_disable_before_enable => ~gdsc_is_enabled(sc)

\* C12 (amended): is_enabled() reads only the runtime flags.  On a
\* register-toggled domain with skip_disable_before_enable it returns false
\* in every reachable state, whatever is_gdsc_enabled and the registers hold;
\* on a reset-controlled domain the test of toggle_logic comes first and it
\* returns !resets_asserted, with or without skip_disable_before_enable.
C12_IsEnabledSkip ==
  /\ (sc.skip_disable_before_enable /\ sc.toggle_logic) => ~gdsc_is_enabled(sc)
  /\ ~sc.toggle_logic => (gdsc_is_enabled(sc) = ~sc.resets_asserted)

C12_Witness ==
  /\ sc.skip_disable_before_enable /\ sc.toggle_logic
  /\ call.op = "enable" /\ call.ret = 0
  /\ sc.is_gdsc_enabled
  /\ ~CollapseRequested(sc, regs)
  /\ ~gdsc_is_enabled(sc)

\* the event the step from the present state to the next one performs, when
\* that step is a step of the call in flight
StepEvent == IF run.pc = "idle" THEN run'.m.ev[1] ELSE run.m.ev[run.i]
ChildActs == (run.pc = "idle" /\ run'.pc = "running") \/ (run.pc = "running" /\ run'.i = run.i + 1)
\* the call in flight has made its parent check before its next event
Checked ==
  run.pc = "running" /\ \E j \in 1..(run.i - 1) : run.m.ev[j].t = "is_enabled"

\* C13: while disable() or set_mode() of the child holds the parent lock the
\* parent does not change; so, against a parent that changes its enabled
\* state only under its own lock, every register access the child's
\* disable() or set_mode() makes after its parent check is made under the
\* lock, with the parent enabled before and after the access, and the child
\* makes no register access before that check.
C13_ParentHeld ==
  [][ /\ owner = "child" => parent_rdev' = parent_rdev
      /\ (ChildActs /\ StepEvent.t \in AccessKinds)
           => /\ Checked
              /\ owner = "child" /\ owner' = "child"
              /\ parent_rdev.on /\ parent_rdev'.on
              /\ parent_rdev.pc = "idle" ]_vars

C13_Witness ==
  /\ call.op = "disable" /\ call.ret = -EIO
  /\ run.pc = "running" /\ run.op = "disable"
  /\ run.i <= Len(run.m.ev) /\ run.m.ev[run.i].t = "unlock"
  /\ \E j \in 1..(run.i - 1) : run.m.ev[j].t = "write" /\ run.m.ev[j].r = "regmap"
  /\ owner = "child"
  /\ parent_rdev.on

\* the last call is an enable() that reached its poll and whose first
\* gds_timeout samples all showed PWR_ON = 0: its first poll timed out
FirstPollTimedOut ==
  /\ call.op = "enable" /\ sc.toggle_logic
  /\ call.n >= sc.gds_timeout
  /\ \A i \in 1..sc.gds_timeout : Samples[i].k = 0
\* the kinds and registers of the events of the last call after its sample number k
AfterSample(k) ==
  LET at == CHOOSE i \in EvIdx("sample") :
              Cardinality({j \in EvIdx("sample") : j <= i}) = k
  IN  [i \in 1..(Len(call.ev) - at) |-> <<call.ev[at + i].t, call.ev[at + i].r>>]

\* C14: Enable poll retry.  When the first poll of enable() times out, a
\* domain with a hardware-status register reads GDSCR and that register and
\* polls once more, for a second full budget: enable() returns 0 with
\* is_enabled() true when a sample of the second poll shows PWR_ON, and
\* -ETIMEDOUT after exactly 2 * gds_timeout samples otherwise.  A domain
\* without one returns -ETIMEDOUT with no further sample, after reading
\* GDSCR, one delay of gds_timeout us and a second read of GDSCR.
C14_EnableRetry ==
  FirstPollTimedOut =>
    IF sc.hw_ctrl
    THEN /\ call.n \in (sc.gds_timeout + 1)..(2 * sc.gds_timeout)
         /\ SubSeq(AfterSample(sc.gds_timeout), 1, 4)
              = << <<"udelay", "-">>, <<"read", "regmap">>, <<"read", "hw_ctrl">>,
                   <<"sample", "hw_ctrl">> >>
         /\ \A i \in (sc.gds_timeout + 1)..(call.n - 1) : Samples[i].k = 0
         /\ IF Samples[call.n].k = 1
            THEN call.ret = 0 /\ sc.is_gdsc_enabled /\ gdsc_is_enabled(sc)
            ELSE /\ call.ret = -ETIMEDOUT
                 /\ call.n = 2 * sc.gds_timeout
                 /\ AfterSample(call.n)
                      = << <<"udelay", "-">>, <<"read", "regmap">>, <<"read", "hw_ctrl">> >>
    ELSE /\ call.ret = -ETIMEDOUT
         /\ call.n = sc.gds_timeout
         /\ AfterSample(call.n)
              = << <<"udelay", "-">>, <<"read", "regmap">>, <<"udelay", "-">>,
                   <<"read", "regmap">> >>
         /\ call.ev[Len(call.ev) - 1].k = sc.gds_timeout

C14_Witness ==
  /\ FirstPollTimedOut /\ sc.hw_ctrl
  /\ sc.gds_timeout >= 2
  /\ call.n = 2 * sc.gds_timeout
  /\ Samples[call.n].k = 1
  /\ call.ret = 0
  /\ ~gdsc_is_enabled(call.pre.sc) /\ gdsc_is_enabled(sc)

\* the ARES bit of the SW-reset register and of the ACD reset registers the domain has
ResetAsserted(s, r) ==
  \/ s.sw_reset /\ Test(r["sw_reset"], BCR_BLK_ARES_BIT)
  \/ s.sw_reset /\ s.acd_reset /\ Test(r["acd_reset"], BCR_BLK_ARES_BIT)
  \/ s.sw_reset /\ s.acd_misc_reset /\ Test(r["acd_misc_reset"], BCR_BLK_ARES_BIT)

\* C15: Enable failure semantics.  When enable() on a register-toggled domain
\* returns -ETIMEDOUT, what it wrote stays: the collapse request (vote bit or
\* SW_COLLAPSE) is clear, GMEM_CLAMP_IO is clear, the SW resets are
\* de-asserted.  is_gdsc_enabled is as before the call.  The retention write
\* is not made (the only write to GDSCR is the one that clears SW_COLLAPSE on
\* a domain without a vote register), and the tail is not run: the call ends
\* with its diagnostic read, no root clock is released, and the root clock
\* enabled at entry stays voted.
C15_EnableTimeoutNoRollback ==
  (call.op = "enable" /\ sc.toggle_logic /\ call.ret = -ETIMEDOUT)
    => /\ ~CollapseRequested(sc, regs)
       /\ sc.domain_addr => ~Test(regs["domain_addr"], GMEM_CLAMP_IO_MASK)
       /\ ~ResetAsserted(sc, regs)
       /\ sc.is_gdsc_enabled = call.pre.sc.is_gdsc_enabled
       /\ gdsc_is_enabled(sc) = gdsc_is_enabled(call.pre.sc)
       /\ regs["regmap"] = IF sc.collapse_vote.regmap THEN call.pre.regs["regmap"]
                           ELSE AndNot(call.pre.regs["regmap"], SW_COLLAPSE_MASK)
       /\ Cardinality(WritesTo("regmap")) = IF sc.collapse_vote.regmap THEN 0 ELSE 1
       /\ call.ev[Len(call.ev)].t = "read"
       /\ EvIdx("clk_disable") = {}
       /\ IF sc.root_en \/ sc.force_root_en
          THEN sc.is_root_clk_voted /\ clk = call.pre.clk + 1
          ELSE sc.is_root_clk_voted = call.pre.sc.is_root_clk_voted /\ clk = call.pre.clk

C15_Witness ==
  /\ call.op = "enable" /\ sc.toggle_logic /\ call.ret = -ETIMEDOUT
  /\ sc.domain_addr /\ sc.sw_reset /\ sc.retain_ff_enable
  /\ ~Test(regs["regmap"], RETAIN_FF_ENABLE_MASK)
  /\ CollapseRequested(call.pre.sc, call.pre.regs)
  /\ Test(call.pre.regs["domain_addr"], GMEM_CLAMP_IO_MASK)
  /\ ~CollapseRequested(sc, regs)
  /\ ~Test(regs["domain_addr"], GMEM_CLAMP_IO_MASK)
  /\ ~sc.is_gdsc_enabled

\* C16: Root-clock bracket on enable.  On a domain with force_root_en, every
\* enable() that enabled the root clock at entry and returns 0 or -ETIMEDOUT
\* has disabled it again before returning: is_root_clk_voted is false and the
\* enable count of the clock is what it was before the call.
C16_RootClockBracket ==
  (/\ call.op = "enable" /\ sc.force_root_en
   /\ EvIdx("clk_enable") # {}
   /\ call.ret \in {0, -ETIMEDOUT})
    => /\ ~sc.is_root_clk_voted
       /\ clk = call.pre.clk
       /\ \E i \in EvIdx("clk_enable"), j \in EvIdx("clk_disable") : i < j

\* the same for the calls that return 0 only
C16_RootClockBracketOnSuccess ==
  (/\ call.op = "enable" /\ sc.force_root_en
   /\ EvIdx("clk_enable") # {}
   /\ call.ret = 0)
    => /\ ~sc.is_root_clk_voted
       /\ clk = call.pre.clk
       /\ EvIdx("clk_enable") = {1}
       /\ Cardinality(EvIdx("clk_disable")) = 1
       /\ \A j \in EvIdx("clk_disable") : j = Len(call.ev)

\* the last call made no parent check, or the parent answered "enabled"
PassedParentCheck == ~rdev.supply \/ ParentAnswered(1)

\* C17: Root-clock release on disable.  A disable() that passes the parent
\* check disables the root clock, once, and leaves is_root_clk_voted false,
\* exactly when the domain has force_root_en, or has root_en and
\* is_root_clk_voted was true on entry; it enables the clock first exactly
\* when it has force_root_en.  Otherwise it makes no clock call and leaves
\* is_root_clk_voted and the enable count as they were.
C17_DisableRootClock ==
  (call.op = "disable" /\ PassedParentCheck)
    => IF sc.force_root_en \/ (sc.root_en /\ call.pre.sc.is_root_clk_voted)
       THEN /\ Cardinality(EvIdx("clk_disable")) = 1
            /\ ~sc.is_root_clk_voted
            /\ IF sc.force_root_en
               THEN /\ EvIdx("clk_enable") = {IF rdev.supply THEN 3 ELSE 1}
                    /\ \A i \in EvIdx("clk_enable"), j \in EvIdx("clk_disable") : i < j
                    /\ clk = call.pre.clk
               ELSE /\ EvIdx("clk_enable") = {}
                    /\ clk = call.pre.clk - 1
       ELSE /\ EvIdx("clk_enable") \cup EvIdx("clk_disable") = {}
            /\ clk = call.pre.clk
            /\ sc.is_root_clk_voted = call.pre.sc.is_root_clk_voted

C17_Witness ==
  /\ call.op = "disable" /\ PassedParentCheck
  /\ sc.root_en /\ ~sc.force_root_en
  /\ call.pre.sc.is_root_clk_voted
  /\ ~sc.is_root_clk_voted
  /\ clk = call.pre.clk - 1
  /\ Cardinality(EvIdx("clk_disable")) = 1

\* C18: the two families never mix.  enable() and disable() on a
\* register-toggled domain assert and de-assert no reset line and leave
\* resets_asserted as it was; on a reset-controlled domain they write no
\* register: GDSCR, the vote, domain-address, SW-reset and ACD reset
\* registers keep their words.
C18_FamiliesNeverMix ==
  call.op \in {"enable", "disable"} =>
    IF sc.toggle_logic
    THEN /\ EvIdx("assert") \cup EvIdx("deassert") = {}
         /\ rst = call.pre.rst
         /\ sc.resets_asserted = call.pre.sc.resets_asserted
    ELSE /\ EvIdx("write") = {}
         /\ regs = call.pre.regs
         /\ EvIdx("sample") = {}

C18_Witness ==
  /\ call.op = "disable" /\ call.ret = 0
  /\ ~sc.toggle_logic /\ sc.reset_count >= 2
  /\ sc.collapse_vote.regmap /\ sc.domain_addr /\ sc.sw_reset /\ sc.acd_misc_reset
  /\ Cardinality(EvIdx("assert")) = sc.reset_count
  /\ ~call.pre.sc.resets_asserted /\ sc.resets_asserted
  /\ ~CollapseRequested(sc, regs)
  /\ regs = call.pre.regs

\* C19 (as stated): on a reset-controlled domain without
\* skip_disable_before_enable, enable() makes no busy check: whatever
\* HW_CONTROL of GDSCR holds, it de-asserts every reset line, sets
\* resets_asserted to false and returns 0.
C19_Original ==
  (call.op = "enable" /\ ~sc.toggle_logic /\ ~sc.skip_disable_before_enable)
    => /\ call.ret = 0
       /\ ~sc.resets_asserted
       /\ LineOrder("deassert") = Ascending(sc.reset_count)

\* C19 (amended): on a reset-controlled domain without
\* skip_disable_before_enable, enable() makes the busy check first: with
\* HW_CONTROL of GDSCR set it returns -EBUSY, touches no reset line and
\* leaves resets_asserted as it was.  With HW_CONTROL clear it makes no
\* other register access (no write, no status sample, no read but that of
\* GDSCR), de-asserts every reset line in configured order, sets
\* resets_asserted to false and returns 0.
C19_ResetEnable ==
  (call.op = "enable" /\ ~sc.toggle_logic /\ ~sc.skip_disable_before_enable)
    => /\ EvIdx("write") = {} /\ EvIdx("sample") = {}
       /\ \A i \in EvIdx("read") : call.ev[i].r = "regmap"
       /\ Cardinality(EvIdx("read")) = 1
       /\ IF Test(call.pre.regs["regmap"], HW_CONTROL_MASK)
          THEN /\ call.ret = -EBUSY
               /\ LineOrder("deassert") = <<>>
               /\ rst = call.pre.rst
               /\ sc.resets_asserted = call.pre.sc.resets_asserted
          ELSE /\ call.ret = 0
               /\ LineOrder("deassert") = Ascending(sc.reset_count)
               /\ \A i \in DOMAIN rst : ~rst[i]
               /\ ~sc.resets_asserted

C19_Witness ==
  /\ call.op = "enable" /\ ~sc.toggle_logic /\ ~sc.skip_disable_before_enable
  /\ sc.reset_count >= 2
  /\ Test(call.pre.regs["regmap"], HW_CONTROL_MASK)
  /\ call.pre.sc.resets_asserted
  /\ call.ret = -EBUSY
  /\ sc.resets_asserted
  /\ \A i \in DOMAIN rst : rst[i]

\* C20: on a skip_disable_before_enable domain enable() returns 0 and does
\* nothing else: no register is read or written, the root clock is neither
\* enabled nor disabled, no reset line is touched, and is_enabled,
\* resets_asserted and is_root_clk_voted (with every other field, register,
\* clock count and reset line) are as they were before the call.
C20_SkipEnableNoOp ==
  (call.op = "enable" /\ sc.skip_disable_before_enable)
    => /\ call.ret = 0
       /\ call.ev = <<>>
       /\ call.n = 0
       /\ sc = call.pre.sc
       /\ regs = call.pre.regs
       /\ clk = call.pre.clk
       /\ rst = call.pre.rst
       /\ lock = 0

\* enable() on a reset-controlled skip domain with a root clock, while its
\* reset lines are asserted and its root clock vote is dropped
C20_Witness ==
  /\ call.op = "enable" /\ sc.skip_disable_before_enable
  /\ ~sc.toggle_logic /\ sc.reset_count >= 2 /\ sc.root_en
  /\ call.ret = 0
  /\ sc.resets_asserted /\ \A i \in DOMAIN rst : rst[i]
  /\ ~sc.is_root_clk_voted
  /\ ~sc.is_gdsc_enabled

\* the write of the last call that changes the collapse request: the write to
\* the vote register, or the write to GDSCR that the barrier read follows
CollapseWrites ==
  IF sc.collapse_vote.regmap THEN WritesTo("collapse_vote")
  ELSE {i \in WritesTo("regmap") : i < Len(call.ev) /\ call.ev[i + 1].t = "mb"}
\* the collapse request bit in the word written by event i
CollapseBit(i) ==
  IF sc.collapse_vote.regmap THEN Test(call.ev[i].v, BIT(sc.collapse_vote.vote_bit))
  ELSE Test(call.ev[i].v, SW_COLLAPSE_MASK)
\* the last write of the call to the domain-address register, the one that
\* leaves GMEM_CLAMP_IO as the call wants it
ClampWrite == CHOOSE i \in WritesTo("domain_addr") : \A j \in WritesTo("domain_addr") : j <= i
\* the clamp write and the collapse write of the call exist, once each
HasClampAndCollapse == WritesTo("domain_addr") # {} /\ Cardinality(CollapseWrites) = 1
\* enable(): clamp cleared, then collapse request cleared, then barrier read
\* and udelay(1), then the samples
PowerUpOrder ==
  \A w \in CollapseWrites :
    /\ ~CollapseBit(w)
    /\ ~Test(call.ev[ClampWrite].v, GMEM_CLAMP_IO_MASK)
    /\ ClampWrite < w
    /\ call.ev[w + 1].t = "mb"
    /\ call.ev[w + 2].t = "udelay" /\ call.ev[w + 2].k = 1
    /\ \A k \in EvIdx("sample") : k > w + 2
\* disable(): collapse request set, then clamp set
PowerDownOrder ==
  \A w \in CollapseWrites :
    /\ CollapseBit(w)
    /\ Test(call.ev[ClampWrite].v, GMEM_CLAMP_IO_MASK)
    /\ w < ClampWrite

\* C21 (as stated): on every register-toggled domain with a domain-address
\* register, in enable() the write that clears GMEM_CLAMP_IO precedes the
\* write that clears the collapse request, which a barrier read and a delay
\* separate from the first status sample; in disable() the write that sets the
\* collapse request precedes the write that sets GMEM_CLAMP_IO.  After every
\* enable() that returned 0 GMEM_CLAMP_IO is 0, and after every disable() that
\* passed the parent check it is 1.
C21_Original ==
  (sc.toggle_logic /\ sc.domain_addr) =>
    /\ call.op = "enable" =>
         /\ PowerUpOrder
         /\ call.ret = 0 => ~Test(regs["domain_addr"], GMEM_CLAMP_IO_MASK)
    /\ (call.op = "disable" /\ PassedParentCheck) =>
         /\ HasClampAndCollapse
         /\ PowerDownOrder
         /\ Test(regs["domain_addr"], GMEM_CLAMP_IO_MASK)

\* C21 (amended): the same, for the enable() of a domain without
\* skip_disable_before_enable: every such enable() that passes the busy check
\* makes both writes in that order, and after every such enable() that
\* returned 0 GMEM_CLAMP_IO is 0.  The enable() of a skip domain returns 0 and
\* leaves GMEM_CLAMP_IO as it was.
C21_PowerOrdering ==
  (sc.toggle_logic /\ sc.domain_addr) =>
    /\ (call.op = "enable" /\ ~sc.skip_disable_before_enable) =>
         /\ call.ret # -EBUSY => HasClampAndCollapse
         /\ PowerUpOrder
         /\ call.ret = 0 => ~Test(regs["domain_addr"], GMEM_CLAMP_IO_MASK)
    /\ (call.op = "enable" /\ sc.skip_disable_before_enable) =>
         /\ call.ret = 0
         /\ regs["domain_addr"] = call.pre.regs["domain_addr"]
    /\ (call.op = "disable" /\ PassedParentCheck) =>
         /\ HasClampAndCollapse
         /\ PowerDownOrder
         /\ Test(regs["domain_addr"], GMEM_CLAMP_IO_MASK)

\* an enable() that found the clamp set and the domain collapsed, and powered
\* it up after a GMEM_RESET pulse
C21_Witness ==
  /\ call.op = "enable" /\ call.ret = 0
  /\ sc.toggle_logic /\ sc.domain_addr /\ sc.reset_aon /\ ~sc.skip_disable_before_enable
  /\ Test(call.pre.regs["domain_addr"], GMEM_CLAMP_IO_MASK)
  /\ CollapseRequested(call.pre.sc, call.pre.regs)
  /\ HasClampAndCollapse /\ PowerUpOrder
  /\ call.n >= 2
  /\ ~Test(regs["domain_addr"], GMEM_CLAMP_IO_MASK)

\* the SW-reset register and the ACD reset registers the domain has, in the
\* order gdsc_enable writes them
PulsedRegs ==
  <<"sw_reset">> \o (IF sc.acd_reset THEN <<"acd_reset">> ELSE <<>>)
                 \o (IF sc.acd_misc_reset THEN <<"acd_misc_reset">> ELSE <<>>)
\* event i of the last call is a write to register r with BLK_ARES = b
AresWrite(i, r, b) ==
  /\ i \in DOMAIN call.ev
  /\ call.ev[i].t = "write" /\ call.ev[i].r = r
  /\ Test(call.ev[i].v, BCR_BLK_ARES_BIT) = b
\* the read of the SW-reset register that opens the pulse
PulseStart ==
  CHOOSE i \in EvIdx("read") :
    call.ev[i].r = "sw_reset" /\ \A j \in EvIdx("read") : call.ev[j].r = "sw_reset" => i <= j
\* enable() passed the busy check
PassedBusyCheck ==
  ~sc.skip_disable_before_enable /\ ~Test(call.pre.regs["regmap"], HW_CONTROL_MASK)

\* C22: SW-reset pulse.  Every enable() of a register-toggled domain with an
\* SW-reset register that passes the busy check writes BLK_ARES = 1 to the
\* SW-reset register and to each ACD reset register the domain has, makes a
\* barrier read, waits 1us, writes BLK_ARES = 0 to the same registers, makes a
\* barrier read, and only then writes the domain-address register, the vote
\* register or GDSCR; these are its only writes to the reset registers, and
\* when it returns, with 0 or -ETIMEDOUT, BLK_ARES is 0 in each of them.
C22_SwResetPulse ==
  (call.op = "enable" /\ sc.toggle_logic /\ sc.sw_reset /\ PassedBusyCheck) =>
    LET n == Len(PulsedRegs)
        p == PulseStart
    IN  /\ \E i \in EvIdx("read") : call.ev[i].r = "sw_reset"
        /\ \A j \in 1..n : AresWrite(p + j, PulsedRegs[j], TRUE)
        /\ call.ev[p + n + 1].t = "mb"
        /\ call.ev[p + n + 2].t = "udelay" /\ call.ev[p + n + 2].k = 1
        /\ \A j \in 1..n : AresWrite(p + n + 2 + j, PulsedRegs[j], FALSE)
        /\ call.ev[p + 2 * n + 3].t = "mb"
        /\ \A i \in EvIdx("write") : i \in (p + 1)..(p + n) \/ i > p + n + 2
        /\ \A i \in WritesTo("domain_addr") \cup WritesTo("collapse_vote")
                    \cup WritesTo("regmap") : i > p + 2 * n + 3
        /\ \A j \in 1..n :
             Cardinality(WritesTo(PulsedRegs[j])) = 2
        /\ call.ret \in {0, -ETIMEDOUT}
        /\ \A j \in 1..n : ~Test(regs[PulsedRegs[j]], BCR_BLK_ARES_BIT)

\* an enable() that times out on a domain with the three reset registers, the
\* ACD ones holding BLK_ARES = 1 before the call
C22_Witness ==
  /\ call.op = "enable" /\ call.ret = -ETIMEDOUT
  /\ sc.toggle_logic /\ sc.sw_reset /\ sc.acd_reset /\ sc.acd_misc_reset
  /\ sc.domain_addr
  /\ Test(call.pre.regs["acd_reset"], BCR_BLK_ARES_BIT)
  /\ Test(call.pre.regs["acd_misc_reset"], BCR_BLK_ARES_BIT)
  /\ \A j \in 1..3 : Cardinality(WritesTo(PulsedRegs[j])) = 2
  /\ \A j \in 1..3 : ~Test(regs[PulsedRegs[j]], BCR_BLK_ARES_BIT)

\* disable() asserts BLK_ARES of the ACD-misc reset register: one write to it,
\* with the bit set and the other bits kept, before the collapse request
AcdMiscAsserted ==
  /\ Cardinality(WritesTo("acd_misc_reset")) = 1
  /\ \A i \in WritesTo("acd_misc_reset") :
       /\ call.ev[i].v = Or(call.pre.regs["acd_misc_reset"], BCR_BLK_ARES_BIT)
       /\ \A w \in CollapseWrites : i < w
  /\ CollapseWrites # {}
  /\ Test(regs["acd_misc_reset"], BCR_BLK_ARES_BIT)

\* C23 (as stated): a disable() of a register-toggled domain that has an
\* ACD-misc reset register, with or without an SW-reset register, asserts
\* BLK_ARES of that register before it sets the collapse request and never
\* de-asserts it: the bit is 1 when disable() returns.
C23_Original ==
  (/\ call.op = "disable" /\ PassedParentCheck
   /\ sc.toggle_logic /\ sc.acd_misc_reset)
    => AcdMiscAsserted

\* C23 (amended): a disable() of a register-toggled domain that passes the
\* parent check asserts BLK_ARES of the ACD-misc reset register only when the
\* domain has both that register and an SW-reset register: then it does so
\* before it sets the collapse request and never de-asserts it, and the bit
\* is 1 when disable() returns.  Without an SW-reset register, and when the
\* parent check fails, disable() does not write the ACD-misc reset register,
\* whose bit stays as it was.
C23_AcdMiscAssert ==
  (call.op = "disable" /\ sc.toggle_logic /\ sc.acd_misc_reset) =>
    IF sc.sw_reset /\ PassedParentCheck
    THEN AcdMiscAsserted
    ELSE /\ WritesTo("acd_misc_reset") = {}
         /\ regs["acd_misc_reset"] = call.pre.regs["acd_misc_reset"]

C23_Witness ==
  /\ call.op = "disable" /\ call.ret = 0
  /\ sc.toggle_logic /\ sc.acd_misc_reset /\ sc.sw_reset
  /\ ~Test(call.pre.regs["acd_misc_reset"], BCR_BLK_ARES_BIT)
  /\ AcdMiscAsserted

\* C24: Retention.  On a register-toggled domain with retain_ff_enable and
\* without skip_disable_before_enable, in every register layout and whatever
\* the other registers hold, RETAIN_FF_ENABLE (bit 11) of GDSCR is 1 after
\* every enable() that returned 0.
C24_Retention ==
  (/\ call.op = "enable" /\ call.ret = 0
   /\ sc.toggle_logic /\ sc.retain_ff_enable /\ ~sc.skip_disable_before_enable)
    => Test(regs["regmap"], RETAIN_FF_ENABLE_MASK)

\* the same, on the domains without a vote register, where regval holds the
\* word of GDSCR when gdsc_enable_retain tests it
C24_RetentionNoVote ==
  (/\ call.op = "enable" /\ call.ret = 0
   /\ sc.toggle_logic /\ sc.retain_ff_enable /\ ~sc.skip_disable_before_enable
   /\ ~sc.collapse_vote.regmap)
    => Test(regs["regmap"], RETAIN_FF_ENABLE_MASK)

\* the bits of GDSCR the handlers are meant to change
OwnedBits == SW_COLLAPSE_MASK \cup HW_CONTROL_MASK \cup RETAIN_FF_ENABLE_MASK

\* C25: Primary-register frame.  No enable(), disable() or set_mode() changes
\* a bit of GDSCR other than SW_COLLAPSE (bit 0), HW_CONTROL (bit 1) and
\* RETAIN_FF_ENABLE (bit 11): SW_OVERRIDE (bit 2) stays 0 and CLK_DIS_WAIT
\* (bits 12-15) keeps the value gdsc_probe gave it, in every register layout.
C25_PrimaryFrame ==
  call.op \in {"enable", "disable", "set_mode"} =>
    /\ AndNot(regs["regmap"], OwnedBits) = AndNot(call.pre.regs["regmap"], OwnedBits)
    /\ ~Test(regs["regmap"], SW_OVERRIDE_MASK)

\* the same, on the domains where gdsc_enable_retain cannot write a word
\* read from another register into GDSCR
C25_PrimaryFrameNoStale ==
  (/\ call.op \in {"enable", "disable", "set_mode"}
   /\ ~(sc.toggle_logic /\ sc.collapse_vote.regmap /\ sc.retain_ff_enable))
    => /\ AndNot(regs["regmap"], OwnedBits) = AndNot(call.pre.regs["regmap"], OwnedBits)
       /\ ~Test(regs["regmap"], SW_OVERRIDE_MASK)

\* C26: with no_status_check_on_disable, disable() of a register-toggled
\* domain takes no status sample and never returns -ETIMEDOUT: once the parent
\* check has passed it waits TIMEOUT_US instead, returns 0 and leaves
\* is_gdsc_enabled false, whatever the status shows.
C26_NoStatusCheck ==
  (call.op = "disable" /\ sc.toggle_logic /\ sc.no_status_check_on_disable) =>
    /\ EvIdx("sample") = {} /\ call.n = 0
    /\ call.ret # -ETIMEDOUT
    /\ PassedParentCheck =>
         /\ call.ret = 0
         /\ ~sc.is_gdsc_enabled
         /\ \E i \in EvIdx("udelay") : call.ev[i].k = TIMEOUT_US

C26_Witness ==
  /\ call.op = "disable" /\ call.ret = 0
  /\ sc.toggle_logic /\ sc.no_status_check_on_disable
  /\ rdev.supply /\ ParentAnswered(1)
  /\ call.pre.sc.is_gdsc_enabled /\ ~sc.is_gdsc_enabled
  /\ CollapseRequested(sc, regs)
  /\ EvIdx("sample") = {}

\* C27: a set_mode(REGULATOR_MODE_NORMAL) whose parent check and register I/O
\* go well polls for ENABLED if and only if is_gdsc_enabled is true when it is
\* called.  With is_gdsc_enabled false it takes no status sample and returns 0
\* with HW_CONTROL cleared and get_mode() = NORMAL.  With is_gdsc_enabled true
\* and a status that never shows PWR_ON it polls once, gds_timeout samples
\* with or without a hardware-status register, and returns -ETIMEDOUT with
\* HW_CONTROL cleared in GDSCR and is_gdsc_hw_ctrl_mode as it was.
C27_SetModeNormalPoll ==
  SetModeCall(call, REGULATOR_MODE_NORMAL) =>
    /\ (EvIdx("sample") # {}) = call.pre.sc.is_gdsc_enabled
    /\ ~Test(regs["regmap"], HW_CONTROL_MASK)
    /\ ~call.pre.sc.is_gdsc_enabled =>
         /\ call.n = 0
         /\ call.ret = 0
         /\ gdsc_get_mode(sc) = REGULATOR_MODE_NORMAL
    /\ (call.pre.sc.is_gdsc_enabled /\ AlwaysSampled(0)) =>
         /\ call.n = sc.gds_timeout
         /\ call.ret = -ETIMEDOUT
         /\ sc.is_gdsc_hw_ctrl_mode = call.pre.sc.is_gdsc_hw_ctrl_mode
    /\ (call.pre.sc.is_gdsc_enabled /\ ~AlwaysSampled(0)) =>
         /\ call.ret = 0
         /\ gdsc_get_mode(sc) = REGULATOR_MODE_NORMAL

\* the timeout on a domain with a hardware-status register, which enable()
\* would poll twice: the register says software control, the flag hardware
C27_Witness ==
  /\ SetModeCall(call, REGULATOR_MODE_NORMAL) /\ call.ret = -ETIMEDOUT
  /\ call.pre.sc.is_gdsc_enabled
  /\ sc.hw_ctrl /\ sc.gds_timeout >= 2
  /\ call.n = sc.gds_timeout /\ AlwaysSampled(0)
  /\ Test(call.pre.regs["regmap"], HW_CONTROL_MASK)
  /\ ~Test(regs["regmap"], HW_CONTROL_MASK)
  /\ gdsc_get_mode(sc) = REGULATOR_MODE_FAST

\* a set_mode(NORMAL) on a domain that is off: no sample, success
C27_WitnessOff ==
  /\ SetModeCall(call, REGULATOR_MODE_NORMAL) /\ call.ret = 0
  /\ ~call.pre.sc.is_gdsc_enabled
  /\ Test(call.pre.regs["regmap"], HW_CONTROL_MASK)
  /\ call.n = 0

\* C28: set_mode() with a mode that is neither REGULATOR_MODE_NORMAL nor
\* REGULATOR_MODE_FAST writes no register, takes no status sample, leaves
\* is_gdsc_hw_ctrl_mode and every other field as they were, and returns with
\* the parent lock released; it returns -EINVAL when the parent check and the
\* read of GDSCR go well, and the error of whichever of the two fails first
\* otherwise.
C28_InvalidMode ==
  (/\ call.op = "set_mode"
   /\ call.mode \notin {REGULATOR_MODE_NORMAL, REGULATOR_MODE_FAST}) =>
    /\ CleanCall(call) => call.ret = -EINVAL
    /\ call.ret < 0
    /\ EvIdx("write") \cup EvIdx("write_failed") = {}
    /\ EvIdx("sample") = {}
    /\ regs = call.pre.regs
    /\ sc = call.pre.sc
    /\ clk = call.pre.clk /\ rst = call.pre.rst
    /\ lock = 0
    /\ IF rdev.supply
       THEN Locks = {1} /\ Unlocks = {Len(call.ev)} /\ Len(call.ev) > 1
       ELSE Locks = {} /\ Unlocks = {}

C28_Witness ==
  /\ call.op = "set_mode" /\ call.mode = REGULATOR_MODE_IDLE
  /\ call.ret = -EINVAL
  /\ rdev.supply /\ ParentAnswered(1) /\ CleanCall(call)
  /\ Locks = {1} /\ Unlocks = {Len(call.ev)}
  /\ call.pre.sc.is_gdsc_hw_ctrl_mode /\ sc.is_gdsc_hw_ctrl_mode
  /\ Test(regs["regmap"], HW_CONTROL_MASK)

\* the status samples a call may take: two budgets for an enable() on a
\* domain with a hardware-status register, one budget otherwise
SampleBudget(op) == IF op = "enable" /\ sc.hw_ctrl THEN 2 * sc.gds_timeout ELSE sc.gds_timeout

\* C29: Termination.  Whatever the status shows, and the parent lock being
\* released by whoever holds it, every enable(), disable() and set_mode()
\* that is called returns, and no call takes more status samples than two
\* budgets (enable() on a domain with a hardware-status register) or one
\* budget (every other call).
C29_Termination ==
  /\ [](call.n <= SampleBudget(call.op))
  /\ [](run.pc = "running" => run.m.n <= SampleBudget(run.op))
  /\ (run.pc # "idle") ~> (run.pc = "idle")

\* a disable() waits for the parent lock, held by the parent, after an
\* enable() that took two full budgets of samples and timed out
C29_Witness ==
  /\ run.pc = "waiting" /\ run.op = "disable"
  /\ rdev.supply /\ owner = "parent"
  /\ call.op = "enable" /\ call.ret = -ETIMEDOUT
  /\ sc.hw_ctrl /\ call.n = 2 * sc.gds_timeout

\* the root clock after a disable() that ran its tail: enabled once under
\* force_root_en, released once if then voted under root_en or forced
RootClockPerPolicy ==
  LET voted == call.pre.sc.is_root_clk_voted \/ sc.force_root_en
      released == (voted /\ sc.root_en) \/ sc.force_root_en
  IN  /\ clk = call.pre.clk + (IF sc.force_root_en THEN 1 ELSE 0)
                             - (IF released THEN 1 ELSE 0)
      /\ sc.is_root_clk_voted = (voted /\ ~released)
      /\ Cardinality(EvIdx("clk_disable")) = (IF released THEN 1 ELSE 0)
      /\ \A i \in EvIdx("clk_disable"), k \in EvIdx("sample") : k < i

\* C30: a disable() of a register-toggled domain that times out polling for
\* DISABLED runs its remaining steps: it sets GMEM_CLAMP_IO when the domain
\* has a domain-address register, releases the root clock per policy, sets
\* is_gdsc_enabled to false, releases the parent lock and returns -ETIMEDOUT;
\* after it is_enabled() answers false and the collapse request bit is 1.
C30_DisableTimeout ==
  (call.op = "disable" /\ sc.toggle_logic /\ call.ret = -ETIMEDOUT) =>
    /\ call.n = sc.gds_timeout /\ AlwaysSampled(1)
    /\ sc.domain_addr =>
         /\ Test(regs["domain_addr"], GMEM_CLAMP_IO_MASK)
         /\ \A k \in EvIdx("sample") : k < ClampWrite
         /\ Test(call.ev[ClampWrite].v, GMEM_CLAMP_IO_MASK)
    /\ RootClockPerPolicy
    /\ ~sc.is_gdsc_enabled
    /\ ~gdsc_is_enabled(sc)
    /\ CollapseRequested(sc, regs)
    /\ lock = 0
    /\ rdev.supply => Unlocks = {Len(call.ev)}

\* the timeout on an enabled domain with a parent and a voted root clock
C30_Witness ==
  /\ call.op = "disable" /\ call.ret = -ETIMEDOUT
  /\ sc.toggle_logic /\ rdev.supply /\ sc.root_en
  /\ call.pre.sc.is_gdsc_enabled /\ call.pre.sc.is_root_clk_voted
  /\ ~CollapseRequested(call.pre.sc, call.pre.regs)
  /\ clk = call.pre.clk - 1
  /\ ~sc.is_gdsc_enabled /\ CollapseRequested(sc, regs)
  /\ lock = 0

\* the timeout on an enabled domain with a domain-address register
C30_WitnessClamp ==
  /\ call.op = "disable" /\ call.ret = -ETIMEDOUT
  /\ sc.toggle_logic /\ sc.domain_addr
  /\ ~Test(call.pre.regs["domain_addr"], GMEM_CLAMP_IO_MASK)
  /\ Test(regs["domain_addr"], GMEM_CLAMP_IO_MASK)

\* C31: on a register-toggled domain, after gdsc_probe and after any sequence
\* of enable(), disable() and set_mode() calls, is_gdsc_enabled true implies
\* that the collapse request bit of the domain (its vote bit if it has a vote
\* register, SW_COLLAPSE of GDSCR otherwise) is 0; so does is_enabled() true.
C31_EnabledNotCollapsed ==
  sc.toggle_logic =>
    /\ sc.is_gdsc_enabled => ~CollapseRequested(sc, regs)
    /\ gdsc_is_enabled(sc) => ~CollapseRequested(sc, regs)

\* a vote domain found collapsed, enabled by a call that took two samples,
\* after an earlier call
C31_Witness ==
  /\ call.op = "enable" /\ call.ret = 0 /\ call.n >= 2
  /\ sc.toggle_logic /\ sc.collapse_vote.regmap
  /\ ~call.pre.sc.is_gdsc_enabled /\ CollapseRequested(call.pre.sc, call.pre.regs)
  /\ sc.is_gdsc_enabled /\ gdsc_is_enabled(sc)
  /\ ~CollapseRequested(sc, regs)
  /\ Test(regs["regmap"], SW_COLLAPSE_MASK)

\* C32: on a reset-controlled domain, after gdsc_probe and after any sequence
\* of enable(), disable() and set_mode() calls, is_gdsc_enabled equals the
\* negation of resets_asserted.
C32_EnabledIffNotInReset ==
  ~sc.toggle_logic => (sc.is_gdsc_enabled = ~sc.resets_asserted)

\* a disable() that put an enabled domain in reset, after a set_mode(FAST)
C32_Witness ==
  /\ ~sc.toggle_logic /\ sc.reset_count >= 1
  /\ call.op = "disable" /\ call.ret = 0
  /\ call.pre.sc.is_gdsc_enabled /\ ~call.pre.sc.resets_asserted
  /\ ~sc.is_gdsc_enabled /\ sc.resets_asserted
  /\ sc.is_gdsc_hw_ctrl_mode

\* an enable() that took a domain out of reset
C32_WitnessEnable ==
  /\ ~sc.toggle_logic /\ sc.reset_count >= 1
  /\ call.op = "enable" /\ call.ret = 0
  /\ ~call.pre.sc.is_gdsc_enabled /\ call.pre.sc.resets_asserted
  /\ sc.is_gdsc_enabled /\ ~sc.resets_asserted

\* get_mode() reports REGULATOR_MODE_FAST exactly when HW_CONTROL of GDSCR is 1
ModeAgrees(s, r) ==
  (gdsc_get_mode(s) = REGULATOR_MODE_FAST) = Test(r["regmap"], HW_CONTROL_MASK)

\* C33: after gdsc_probe and after any sequence of set_mode(), enable() and
\* disable() calls, the set_mode() calls that return -ETIMEDOUT included,
\* get_mode() reports REGULATOR_MODE_FAST if and only if HW_CONTROL of GDSCR
\* is 1.
C33_ModeAgrees == ModeAgrees(sc, regs)

\* the same for one call: agreement is kept by every call but a
\* set_mode(NORMAL) that times out and an enable() on a domain where
\* gdsc_enable_retain can write a word read from another register into GDSCR
C33_ModeAgreesStep ==
  [][ (/\ ModeAgrees(sc, regs)
       /\ ~(call'.op = "set_mode" /\ call'.ret = -ETIMEDOUT)
       /\ ~(/\ call'.op = "enable"
            /\ sc.toggle_logic /\ sc.collapse_vote.regmap /\ sc.retain_ff_enable))
      => ModeAgrees(sc', regs') ]_vars

\* C34: root-clock accounting.  After any sequence of enable() and disable()
\* calls, repeated enable() calls, -EBUSY and -ETIMEDOUT returns included,
\* the enables minus the disables the domain has issued on its root clock are
\* never negative, 1 when is_root_clk_voted is true and 0 when it is false.
C34_RootClockBalanced ==
  /\ clk >= 0
  /\ clk = (IF sc.is_root_clk_voted THEN 1 ELSE 0)

\* what does hold: the count is never negative, and is at least 1 while
\* is_root_clk_voted is true
C34_RootClockHeld ==
  /\ clk >= 0
  /\ sc.is_root_clk_voted => clk >= 1

====
